---- MODULE Spec2Model ----
(***************************************************************************)
(* Model of the htmljscheck parser: Tokenizer -> TreeBuilder -> parseHTML. *)
(* The repository holds two revisions of the tokenizer: the one of the     *)
(* bundle (unnamed/part_000) and the one of src/tokenizer.js.  Both are    *)
(* modelled; the variable impl says which one a run uses.                  *)
(* Strings are sequences of one-character strings.                         *)
(***************************************************************************)
EXTENDS Integers, Sequences, FiniteSets, TLC

VARIABLES impl, html, tokenizer, treeBuilder, next_token, result, queried, matched,
          serialized, pc

vars ==
  <<impl, html, tokenizer, treeBuilder, next_token, result, queried, matched, serialized, pc>>

----------------------------------------------------------------------------
(* Characters and strings *)

LowerLetters == <<"a", "b", "c", "d", "e", "f", "g", "h", "i", "j", "k", "l", "m", "n", "o", "p", "q", "r", "s", "t", "u", "v", "w", "x", "y", "z">>
UpperLetters == <<"A", "B", "C", "D", "E", "F", "G", "H", "I", "J", "K", "L", "M", "N", "O", "P", "Q", "R", "S", "T", "U", "V", "W", "X", "Y", "Z">>

Range(s) == {s[i] : i \in DOMAIN s}

\* /[a-zA-Z]/.test(char)
isLetter(c) == c \in Range(LowerLetters) \cup Range(UpperLetters)

\* /\s/.test(char)
isSpace(c) == c \in {" ", "\n", "\t"}

\* char.toLowerCase()
toLowerCase(c) ==
  IF c \in Range(UpperLetters)
  THEN LowerLetters[CHOOSE i \in DOMAIN UpperLetters : UpperLetters[i] = c]
  ELSE c

\* name.toLowerCase()
lowerCased(name) == [i \in DOMAIN name |-> toLowerCase(name[i])]

\* buffer.endsWith(suffix)
endsWith(s, suffix) ==
  /\ Len(s) >= Len(suffix)
  /\ SubSeq(s, Len(s) - Len(suffix) + 1, Len(s)) = suffix

\* html.substring(from, to), 0-based, end exclusive, clamped to the length
substring(s, from, to) ==
  LET hi == IF to > Len(s) THEN Len(s) ELSE to
  IN  IF from >= hi THEN <<>> ELSE SubSeq(s, from + 1, hi)

----------------------------------------------------------------------------
(* Attribute maps: JavaScript objects with string keys, insertion ordered *)

hasAttr(attrs, k) == \E i \in DOMAIN attrs : attrs[i].name = k

getAttr(attrs, k) == attrs[CHOOSE i \in DOMAIN attrs : attrs[i].name = k].value

\* attrs[k] = v : an existing key keeps its place, a new key is appended
setAttr(attrs, k, v) ==
  IF hasAttr(attrs, k)
  THEN [i \in DOMAIN attrs |->
          IF attrs[i].name = k THEN [name |-> k, value |-> v] ELSE attrs[i]]
  ELSE Append(attrs, [name |-> k, value |-> v])

\* delete attrs[k]
deleteAttr(attrs, k) ==
  LET keep(a) == a.name # k IN SelectSeq(attrs, keep)

Undefined == <<"u", "n", "d", "e", "f", "i", "n", "e", "d">>

\* attrs[k] += char : reading a missing key gives undefined
appendAttr(attrs, k, c) ==
  setAttr(attrs, k, (IF hasAttr(attrs, k) THEN getAttr(attrs, k) ELSE Undefined) \o <<c>>)

----------------------------------------------------------------------------
(* errors.js: ParseError, and what a call can throw *)

ParseError(message, line, column, index) ==
  [message |-> message, line |-> line, column |-> column, index |-> index]

NoError == ParseError("", 0, 0, 0)

NotThrown == [kind |-> "none", error |-> NoError]

TypeError == [kind |-> "TypeError", error |-> NoError]

----------------------------------------------------------------------------
(* Tokenizer *)

State ==
  {"DATA", "TAG_OPEN", "TAG_NAME", "END_TAG_OPEN", "BEFORE_ATTRIBUTE_NAME",
   "ATTRIBUTE_NAME", "BEFORE_ATTRIBUTE_VALUE", "ATTRIBUTE_VALUE_DOUBLE_QUOTED",
   "ATTRIBUTE_VALUE_SINGLE_QUOTED", "ATTRIBUTE_VALUE_UNQUOTED", "COMMENT",
   "MARKUP_DECLARATION_OPEN"}

\* current_token = null
NullToken == [type |-> "null", tag |-> <<>>, attributes |-> <<>>]

\* { type: 'start_tag', tag, attributes: {} }
StartTagToken(tag) == [type |-> "start_tag", tag |-> tag, attributes |-> <<>>]

\* { type: 'end_tag', tag } : the object has no attributes property
EndTagToken(tag) == [type |-> "end_tag", tag |-> tag, attributes |-> <<>>]

\* current_token.attributes is an object (not undefined, not a property of null)
hasAttributes(tok) == tok.type = "start_tag"

\* the emitted tokens ['Character', c], ['StartTag', tag, attributes],
\* ['EndTag', tag], ['Comment', text]
Character(c) == [type |-> "Character", tag |-> <<>>, attributes |-> <<>>, data |-> <<c>>]
StartTag(tag, attrs) == [type |-> "StartTag", tag |-> tag, attributes |-> attrs, data |-> <<>>]
EndTag(tag) == [type |-> "EndTag", tag |-> tag, attributes |-> <<>>, data |-> <<>>]
Comment(text) == [type |-> "Comment", tag |-> <<>>, attributes |-> <<>>, data |-> text]

\* new Tokenizer(options)
Tokenizer(options) ==
  [options |-> options,
   state |-> "DATA",
   buffer |-> <<>>,
   is_end_tag |-> FALSE,
   current_token |-> NullToken,
   line |-> 1,
   column |-> 1,
   index |-> 0,
   errors |-> <<>>,
   tokens |-> <<>>,
   html |-> <<>>,
   current_attribute_name |-> <<>>,
   current_attribute_value |-> <<>>,
   thrown |-> NotThrown]

\* emit(token)
emit(t, token) == [t EXCEPT !.tokens = Append(@, token)]

\* emit_current_token()
emit_current_token(t) ==
  IF t.current_token.type = "null" THEN t
  ELSE IF t.current_token.type = "start_tag"
  THEN [emit(t, StartTag(t.current_token.tag, t.current_token.attributes))
          EXCEPT !.current_token = NullToken]
  ELSE [emit(t, EndTag(t.current_token.tag)) EXCEPT !.current_token = NullToken]

\* error(message) with collectErrors tested before strict
error_collectFirst(t, message) ==
  LET e == ParseError(message, t.line, t.column, t.index)
  IN  IF t.options.collectErrors
      THEN [t EXCEPT !.errors = Append(@, e)]
      ELSE IF t.options.strict
      THEN [t EXCEPT !.thrown = [kind |-> "ParseError", error |-> e]]
      ELSE t

\* error(message) throwing the position after the character
error_strictNextColumn(t, message) ==
  IF t.options.strict
  THEN [t EXCEPT !.thrown = [kind |-> "ParseError",
                             error |-> ParseError(message, t.line, t.column + 1, t.index + 1)]]
  ELSE IF t.options.collectErrors
  THEN [t EXCEPT !.errors = Append(@, ParseError(message, t.line, t.column, t.index))]
  ELSE t

\* error(message)
error(t, message) ==
  LET e == ParseError(message, t.line, t.column, t.index)
  IN  IF t.options.strict
      THEN [t EXCEPT !.thrown = [kind |-> "ParseError", error |-> e]]
      ELSE IF t.options.collectErrors
      THEN [t EXCEPT !.errors = Append(@, e)]
      ELSE t

\* a property access on undefined or null
throwTypeError(t) == [t EXCEPT !.thrown = TypeError]

\* this.current_token.attributes[k] = v
assignAttribute(t, k, v) ==
  IF hasAttributes(t.current_token)
  THEN [t EXCEPT !.current_token.attributes = setAttr(@, k, v)]
  ELSE throwTypeError(t)

\* this.current_token.tag += c
appendTag(t, c) ==
  IF t.current_token.type = "null" THEN throwTypeError(t)
  ELSE [t EXCEPT !.current_token.tag = Append(@, c)]

\* the cases of consume that the two revisions share
consumeData(t, char) ==
  IF char = "<" THEN [t EXCEPT !.state = "TAG_OPEN"]
  ELSE emit(t, Character(char))

\* State.END_TAG_OPEN that skips a character that is not a letter
consumeEndTagOpen_skip(t, char) ==
  IF isLetter(char)
  THEN [t EXCEPT !.current_token = EndTagToken(<<toLowerCase(char)>>),
                 !.state = "TAG_NAME",
                 !.is_end_tag = TRUE]
  ELSE t

consumeEndTagOpen(t, char) ==
  IF isLetter(char)
  THEN [t EXCEPT !.current_token = EndTagToken(<<toLowerCase(char)>>),
                 !.state = "TAG_NAME",
                 !.is_end_tag = TRUE]
  ELSE error(t, "Unexpected character in end tag open state")

\* State.TAG_NAME that abandons the tag at an unexpected character
consumeTagName_abandon(t, char) ==
  IF char = ">" THEN [emit_current_token(t) EXCEPT !.state = "DATA"]
  ELSE IF isSpace(char) THEN [t EXCEPT !.state = "BEFORE_ATTRIBUTE_NAME"]
  ELSE IF isLetter(char) THEN appendTag(t, toLowerCase(char))
  ELSE [error(t, "Unexpected character in tag name state")
          EXCEPT !.state = "DATA", !.current_token = NullToken]

\* State.TAG_NAME without the case folding
consumeTagName_noFold(t, char) ==
  IF char = ">" THEN [emit_current_token(t) EXCEPT !.state = "DATA"]
  ELSE IF isSpace(char) THEN [t EXCEPT !.state = "BEFORE_ATTRIBUTE_NAME"]
  ELSE IF isLetter(char) THEN appendTag(t, char)
  ELSE error(t, "Unexpected character in tag name state")

consumeTagName(t, char) ==
  IF char = ">" THEN [emit_current_token(t) EXCEPT !.state = "DATA"]
  ELSE IF isSpace(char) THEN [t EXCEPT !.state = "BEFORE_ATTRIBUTE_NAME"]
  ELSE IF isLetter(char) THEN appendTag(t, toLowerCase(char))
  ELSE error(t, "Unexpected character in tag name state")

consumeComment(t, char) ==
  LET b == Append(t.buffer, char)
  IN  IF endsWith(b, <<"-", "-", ">">>)
      THEN [emit(t, Comment(SubSeq(b, 1, Len(b) - 3)))
              EXCEPT !.buffer = <<>>, !.state = "DATA"]
      ELSE [t EXCEPT !.buffer = b]

\* Tokenizer.consume of the bundle (part_000)
RECURSIVE consume(_, _)
consume(t, char) ==
  CASE t.state = "DATA" -> consumeData(t, char)
    [] t.state = "TAG_OPEN" ->
         IF char = "!" THEN [t EXCEPT !.state = "MARKUP_DECLARATION_OPEN"]
         ELSE IF isLetter(char)
         THEN [t EXCEPT !.current_token = StartTagToken(<<toLowerCase(char)>>),
                        !.state = "TAG_NAME",
                        !.is_end_tag = FALSE]
         ELSE IF char = "/" THEN [t EXCEPT !.state = "END_TAG_OPEN"]
         ELSE error(t, "Unexpected character in tag open state")
    [] t.state = "END_TAG_OPEN" -> consumeEndTagOpen(t, char)
    [] t.state = "TAG_NAME" -> consumeTagName(t, char)
    [] t.state = "BEFORE_ATTRIBUTE_NAME" ->
         IF isSpace(char) THEN t
         ELSE IF isLetter(char)
         THEN [t EXCEPT !.current_attribute_name = <<toLowerCase(char)>>,
                        !.current_attribute_value = <<>>,
                        !.state = "ATTRIBUTE_NAME"]
         ELSE IF char = ">" THEN [emit_current_token(t) EXCEPT !.state = "DATA"]
         ELSE error(t, "Unexpected character in before attribute name state")
    [] t.state = "ATTRIBUTE_NAME" ->
         IF char = "=" THEN [t EXCEPT !.state = "BEFORE_ATTRIBUTE_VALUE"]
         ELSE IF isSpace(char) \/ char = ">"
         THEN LET t1 == assignAttribute(t, t.current_attribute_name, <<>>)
              IN  IF t1.thrown.kind # "none" THEN t1
                  ELSE consume([t1 EXCEPT !.current_attribute_name = <<>>,
                                          !.current_attribute_value = <<>>,
                                          !.state = "BEFORE_ATTRIBUTE_NAME"], char)
         ELSE IF isLetter(char)
         THEN [t EXCEPT !.current_attribute_name = Append(@, toLowerCase(char))]
         ELSE error(t, "Unexpected character in attribute name state")
    [] t.state = "BEFORE_ATTRIBUTE_VALUE" ->
         IF isSpace(char) THEN t
         ELSE IF char = "\"" THEN [t EXCEPT !.state = "ATTRIBUTE_VALUE_DOUBLE_QUOTED"]
         ELSE IF char = "'" THEN [t EXCEPT !.state = "ATTRIBUTE_VALUE_SINGLE_QUOTED"]
         ELSE IF ~isSpace(char) /\ char # ">"
         THEN [t EXCEPT !.current_attribute_value = Append(@, char),
                        !.state = "ATTRIBUTE_VALUE_UNQUOTED"]
         ELSE error(t, "Unexpected character in before attribute value state")
    [] t.state \in {"ATTRIBUTE_VALUE_DOUBLE_QUOTED", "ATTRIBUTE_VALUE_SINGLE_QUOTED"} ->
         IF char = (IF t.state = "ATTRIBUTE_VALUE_DOUBLE_QUOTED" THEN "\"" ELSE "'")
         THEN LET t1 == assignAttribute(t, t.current_attribute_name, t.current_attribute_value)
              IN  IF t1.thrown.kind # "none" THEN t1
                  ELSE [t1 EXCEPT !.current_attribute_name = <<>>,
                                  !.current_attribute_value = <<>>,
                                  !.state = "BEFORE_ATTRIBUTE_NAME"]
         ELSE [t EXCEPT !.current_attribute_value = Append(@, char)]
    [] t.state = "ATTRIBUTE_VALUE_UNQUOTED" ->
         IF isSpace(char) \/ char = ">"
         THEN LET t1 == assignAttribute(t, t.current_attribute_name, t.current_attribute_value)
              IN  IF t1.thrown.kind # "none" THEN t1
                  ELSE consume([t1 EXCEPT !.current_attribute_name = <<>>,
                                          !.current_attribute_value = <<>>,
                                          !.state = "BEFORE_ATTRIBUTE_NAME"], char)
         ELSE [t EXCEPT !.current_attribute_value = Append(@, char)]
    [] t.state = "MARKUP_DECLARATION_OPEN" ->
         LET b == Append(t.buffer, char)
         IN  IF b = <<"-", "-">>
             THEN [t EXCEPT !.state = "COMMENT", !.buffer = <<>>]
             ELSE error([t EXCEPT !.buffer = b],
                        "Unexpected character in markup declaration open state")
    [] t.state = "COMMENT" -> consumeComment(t, char)
    [] OTHER -> error(t, "Unknown state")

\* this.current_token.attributes[k] += c
appendAttribute(t, k, c) ==
  IF hasAttributes(t.current_token)
  THEN [t EXCEPT !.current_token.attributes = appendAttr(@, k, c)]
  ELSE throwTypeError(t)

\* Tokenizer.consume of src/tokenizer.js
consumeSrc(t, char) ==
  CASE t.state = "DATA" -> consumeData(t, char)
    [] t.state = "TAG_OPEN" ->
         IF char = "!"
         THEN IF substring(t.html, t.index, t.index + 2) = <<"-", "-">>
              THEN [t EXCEPT !.state = "COMMENT", !.buffer = <<>>]
              ELSE error(t, "Unexpected character in tag open state after !")
         ELSE IF isLetter(char)
         THEN [t EXCEPT !.current_token = StartTagToken(<<toLowerCase(char)>>),
                        !.state = "TAG_NAME",
                        !.is_end_tag = FALSE]
         ELSE IF char = "/" THEN [t EXCEPT !.state = "END_TAG_OPEN"]
         ELSE error(t, "Unexpected character in tag open state")
    [] t.state = "END_TAG_OPEN" -> consumeEndTagOpen(t, char)
    [] t.state = "TAG_NAME" -> consumeTagName(t, char)
    [] t.state = "BEFORE_ATTRIBUTE_NAME" ->
         IF isSpace(char) THEN t
         ELSE IF isLetter(char)
         THEN LET t1 == assignAttribute(t, <<toLowerCase(char)>>, <<>>)
              IN  IF t1.thrown.kind # "none" THEN t1
                  ELSE [t1 EXCEPT !.buffer = <<toLowerCase(char)>>,
                                  !.state = "ATTRIBUTE_NAME"]
         ELSE IF char = ">" THEN [emit_current_token(t) EXCEPT !.state = "DATA"]
         ELSE error(t, "Unexpected character in before attribute name state")
    [] t.state = "ATTRIBUTE_NAME" ->
         IF char = "=" THEN [t EXCEPT !.state = "BEFORE_ATTRIBUTE_VALUE"]
         ELSE IF isLetter(char)
         THEN LET t1 == assignAttribute(t, Append(t.buffer, toLowerCase(char)), <<>>)
              IN  IF t1.thrown.kind # "none" THEN t1
                  ELSE [t1 EXCEPT !.current_token.attributes = deleteAttr(@, t.buffer),
                                  !.buffer = Append(@, toLowerCase(char))]
         ELSE error(t, "Unexpected character in attribute name state")
    [] t.state = "BEFORE_ATTRIBUTE_VALUE" ->
         IF char = "\"" THEN [t EXCEPT !.state = "ATTRIBUTE_VALUE_DOUBLE_QUOTED"]
         ELSE IF char = "'" THEN [t EXCEPT !.state = "ATTRIBUTE_VALUE_SINGLE_QUOTED"]
         ELSE IF ~isSpace(char)
         THEN LET t1 == assignAttribute(t, t.buffer, <<char>>)
              IN  IF t1.thrown.kind # "none" THEN t1
                  ELSE [t1 EXCEPT !.state = "ATTRIBUTE_VALUE_UNQUOTED"]
         ELSE error(t, "Unexpected character in before attribute value state")
    [] t.state \in {"ATTRIBUTE_VALUE_DOUBLE_QUOTED", "ATTRIBUTE_VALUE_SINGLE_QUOTED"} ->
         IF char = (IF t.state = "ATTRIBUTE_VALUE_DOUBLE_QUOTED" THEN "\"" ELSE "'")
         THEN [t EXCEPT !.buffer = <<>>, !.state = "BEFORE_ATTRIBUTE_NAME"]
         ELSE appendAttribute(t, t.buffer, char)
    [] t.state = "ATTRIBUTE_VALUE_UNQUOTED" ->
         IF isSpace(char)
         THEN [t EXCEPT !.buffer = <<>>, !.state = "BEFORE_ATTRIBUTE_NAME"]
         ELSE appendAttribute(t, t.buffer, char)
    [] t.state = "COMMENT" -> consumeComment(t, char)
    [] OTHER -> error(t, "Unknown state")

Impls == {"bundle", "src"}

\* the consume method of the revision in use
consumeOf(i, t, char) == IF i = "bundle" THEN consume(t, char) ELSE consumeSrc(t, char)

\* the number of calls this.consume(char) that consume(char) makes while it
\* handles char in the state of t (the re-consumption of the bundle;
\* src/tokenizer.js has none)
RECURSIVE refed(_, _, _)
refed(i, t, char) ==
  IF /\ i = "bundle"
     /\ t.state \in {"ATTRIBUTE_NAME", "ATTRIBUTE_VALUE_UNQUOTED"}
     /\ isSpace(char) \/ char = ">"
     /\ hasAttributes(t.current_token)
  THEN 1 + refed(i, [t EXCEPT !.state = "BEFORE_ATTRIBUTE_NAME"], char)
  ELSE 0

\* the loop body of run that advances the position once more for a
\* character that was re-consumed
runStep_perConsume(i, t) ==
  LET char == t.html[t.index + 1]
      t1 == consumeOf(i, t, char)
      n == 1 + refed(i, t, char)
  IN  IF t1.thrown.kind # "none" THEN t1
      ELSE IF char = "\n"
      THEN [t1 EXCEPT !.index = @ + n, !.line = @ + 1, !.column = 1]
      ELSE [t1 EXCEPT !.index = @ + n, !.column = @ + n]

\* the loop body of run without the column reset at a newline
runStep_noColumnReset(i, t) ==
  LET char == t.html[t.index + 1]
      t1 == consumeOf(i, t, char)
  IN  IF t1.thrown.kind # "none" THEN t1
      ELSE IF char = "\n"
      THEN [t1 EXCEPT !.index = @ + 1, !.line = @ + 1, !.column = @ + 1]
      ELSE [t1 EXCEPT !.index = @ + 1, !.column = @ + 1]

\* one iteration of the loop of run(html): consume, then advance the position
runStep(i, t) ==
  LET char == t.html[t.index + 1]
      t1 == consumeOf(i, t, char)
  IN  IF t1.thrown.kind # "none" THEN t1
      ELSE IF char = "\n"
      THEN [t1 EXCEPT !.index = @ + 1, !.line = @ + 1, !.column = 1]
      ELSE [t1 EXCEPT !.index = @ + 1, !.column = @ + 1]

\* run(html) as a whole, from the state t
RECURSIVE runFrom(_, _)
runFrom(i, t) ==
  IF t.thrown.kind # "none" \/ t.index >= Len(t.html) THEN t
  ELSE runFrom(i, runStep(i, t))

run(i, options, h) == runFrom(i, [Tokenizer(options) EXCEPT !.html = h])

----------------------------------------------------------------------------
(* nodes.js: the node classes *)

\* parent = null
NullNode == 0

Node(type) ==
  [type |-> type, parent |-> NullNode, children |-> <<>>,
   tag |-> <<>>, attributes |-> <<>>, text |-> <<>>]

DocumentNode == Node("document")

ElementNode(tag) == [Node("element") EXCEPT !.tag = tag]

TextNode(text) == [Node("text") EXCEPT !.text = text]

CommentNode(text) == [Node("comment") EXCEPT !.text = text]

----------------------------------------------------------------------------
(* tree-builder.js *)

\* the one void element name
BR == <<"b", "r">>

\* the document is node 1 of the heap
Document == 1

\* new TreeBuilder()
TreeBuilder == [nodes |-> <<DocumentNode>>, stack |-> <<Document>>]

current_node(tb) == tb.stack[Len(tb.stack)]

\* appendChild that leaves the parent of the new node null
appendChild_noParent(tb, parent, node) ==
  LET id == Len(tb.nodes) + 1
  IN  [tb EXCEPT !.nodes = Append([@ EXCEPT ![parent].children = Append(@, id)], node)]

\* parent.children.push(node); node.parent = parent
appendChild(tb, parent, node) ==
  LET id == Len(tb.nodes) + 1
  IN  [tb EXCEPT !.nodes = Append([@ EXCEPT ![parent].children = Append(@, id)],
                                  [node EXCEPT !.parent = parent])]

\* process_char that never extends the last Text node
process_char_noMerge(tb, char) ==
  appendChild(tb, current_node(tb), TextNode(char))

\* process_char that extends the last child whatever its type
process_char_mergeAny(tb, char) ==
  LET parent == current_node(tb)
      kids == tb.nodes[parent].children
  IN  IF Len(kids) > 0
      THEN [tb EXCEPT !.nodes[kids[Len(kids)]].text = @ \o char]
      ELSE appendChild(tb, parent, TextNode(char))

process_char(tb, char) ==
  LET parent == current_node(tb)
      kids == tb.nodes[parent].children
  IN  IF Len(kids) > 0 /\ tb.nodes[kids[Len(kids)]].type = "text"
      THEN [tb EXCEPT !.nodes[kids[Len(kids)]].text = @ \o char]
      ELSE appendChild(tb, parent, TextNode(char))

\* start_tag that pushes the void element too
start_tag_pushVoid(tb, token) ==
  LET parent == current_node(tb)
      element == [ElementNode(token.tag) EXCEPT !.attributes = token.attributes]
      tb1 == appendChild(tb, parent, element)
  IN  [tb1 EXCEPT !.stack = Append(@, Len(tb1.nodes))]

\* start_tag that appends every element to the document
start_tag_underRoot(tb, token) ==
  LET element == [ElementNode(token.tag) EXCEPT !.attributes = token.attributes]
      tb1 == appendChild(tb, Document, element)
  IN  IF token.tag # BR
      THEN [tb1 EXCEPT !.stack = Append(@, Len(tb1.nodes))]
      ELSE tb1

start_tag(tb, token) ==
  LET parent == current_node(tb)
      element == [ElementNode(token.tag) EXCEPT !.attributes = token.attributes]
      tb1 == appendChild(tb, parent, element)
  IN  IF token.tag # BR
      THEN [tb1 EXCEPT !.stack = Append(@, Len(tb1.nodes))]
      ELSE tb1

\* end_tag that closes the nearest open element of the name, with all above it
end_tag_closeNearest(tb, token) ==
  LET open == {k \in 2..Len(tb.stack) : tb.nodes[tb.stack[k]].tag = token.tag}
  IN  IF open # {}
      THEN [tb EXCEPT !.stack = SubSeq(@, 1, (CHOOSE k \in open : \A j \in open : j <= k) - 1)]
      ELSE tb

\* end_tag that pops whatever the current insertion point is
end_tag_popAny(tb, token) ==
  [tb EXCEPT !.stack = SubSeq(@, 1, Len(@) - 1)]

\* the document node has no tag property: undefined === token[1] is false
end_tag(tb, token) ==
  LET cur == tb.nodes[current_node(tb)]
  IN  IF cur.type = "element" /\ cur.tag = token.tag
      THEN [tb EXCEPT !.stack = SubSeq(@, 1, Len(@) - 1)]
      ELSE tb

\* comment that inserts the Comment node before the other children
comment_first(tb, token) ==
  LET parent == current_node(tb)
      id == Len(tb.nodes) + 1
  IN  [tb EXCEPT !.nodes = Append([@ EXCEPT ![parent].children = <<id>> \o @],
                                  [CommentNode(token.data) EXCEPT !.parent = parent])]

comment(tb, token) ==
  appendChild(tb, current_node(tb), CommentNode(token.data))

process_token(tb, token) ==
  CASE token.type = "Character" -> process_char(tb, token.data)
    [] token.type = "StartTag" -> start_tag(tb, token)
    [] token.type = "EndTag" -> end_tag(tb, token)
    [] token.type = "Comment" -> comment(tb, token)
    [] OTHER -> tb

----------------------------------------------------------------------------
(* nodes.js: Node.query *)

\* selector.split(sep)
RECURSIVE split(_, _)
split(s, sep) ==
  IF \A i \in DOMAIN s : s[i] # sep THEN <<s>>
  ELSE LET i == CHOOSE j \in DOMAIN s : s[j] = sep /\ \A k \in 1..(j - 1) : s[k] # sep
       IN  <<SubSeq(s, 1, i - 1)>> \o split(SubSeq(s, i + 1, Len(s)), sep)

\* s.trim()
trim(s) ==
  LET solid == {i \in DOMAIN s : ~isSpace(s[i])}
  IN  IF solid = {} THEN <<>>
      ELSE SubSeq(s, CHOOSE i \in solid : \A j \in solid : i <= j,
                     CHOOSE i \in solid : \A j \in solid : j <= i)

\* .filter(Boolean) on strings
nonEmpty(s) == s # <<>>

\* the split of a selector in which only whitespace separates the parts
RECURSIVE selectorPieces_atSpaces(_)
selectorPieces_atSpaces(s) ==
  IF s = <<>> THEN <<>>
  ELSE IF isSpace(Head(s)) THEN selectorPieces_atSpaces(Tail(s))
  ELSE LET stops == {i \in DOMAIN s : isSpace(s[i])}
           n == IF stops = {} THEN Len(s)
                ELSE (CHOOSE i \in stops : \A j \in stops : i <= j) - 1
       IN  <<SubSeq(s, 1, n)>> \o selectorPieces_atSpaces(SubSeq(s, n + 1, Len(s)))

\* individualSelector.split(/(\s*>\s*|\s+)/).map(s => s.trim()).filter(Boolean):
\* every ">" is a part, and so is every maximal run of other non-space
\* characters
RECURSIVE selectorPieces(_)
selectorPieces(s) ==
  IF s = <<>> THEN <<>>
  ELSE IF isSpace(Head(s)) THEN selectorPieces(Tail(s))
  ELSE IF Head(s) = ">" THEN <<(<<">">>)>> \o selectorPieces(Tail(s))
  ELSE LET stops == {i \in DOMAIN s : isSpace(s[i]) \/ s[i] = ">"}
           n == IF stops = {} THEN Len(s)
                ELSE (CHOOSE i \in stops : \A j \in stops : i <= j) - 1
       IN  <<SubSeq(s, 1, n)>> \o selectorPieces(SubSeq(s, n + 1, Len(s)))

\* the loop of query that builds parsedSelectorParts
RECURSIVE parsedSelectorPartsFrom(_, _, _)
parsedSelectorPartsFrom(parts, i, parsed) ==
  IF i > Len(parts) THEN parsed
  ELSE IF parts[i] = <<">">>
  THEN parsedSelectorPartsFrom(parts, i + 1,
         Append(parsed, [type |-> "combinator", value |-> <<">">>]))
  ELSE IF i > 1 /\ parsed[Len(parsed)].type = "selector"
  THEN parsedSelectorPartsFrom(parts, i + 1,
         parsed \o <<[type |-> "combinator", value |-> <<" ">>],
                     [type |-> "selector", value |-> parts[i]]>>)
  ELSE parsedSelectorPartsFrom(parts, i + 1,
         Append(parsed, [type |-> "selector", value |-> parts[i]]))

parsedSelectorParts(individualSelector) ==
  parsedSelectorPartsFrom(selectorPieces(individualSelector), 1, <<>>)

\* selector.split(',').map(s => s.trim()).filter(Boolean)
individualSelectors(selector) ==
  SelectSeq([i \in DOMAIN split(selector, ",") |-> trim(split(selector, ",")[i])], nonEmpty)

Digits == {"0", "1", "2", "3", "4", "5", "6", "7", "8", "9"}

\* \w
WordChars == Range(LowerLetters) \cup Range(UpperLetters) \cup Digits \cup {"_"}

\* [\w-]
IdChars == WordChars \cup {"-"}

\* [\w.-]
ClassChars == WordChars \cup {".", "-"}

\* the length of the longest prefix of s made of characters of cs
prefixLen(s, cs) ==
  LET bad == {i \in DOMAIN s : s[i] \notin cs}
  IN  IF bad = {} THEN Len(s) ELSE (CHOOSE i \in bad : \A j \in bad : i <= j) - 1

\* selectorPart.match(/^(?:(\w+))?(?:#([\w-]+))?(?:\.([\w.-]+))?$/):
\* an absent group is the empty string here, as both are falsy in _matchNode
selectorMatch(selectorPart) ==
  LET tagLen == prefixLen(selectorPart, WordChars)
      r1 == SubSeq(selectorPart, tagLen + 1, Len(selectorPart))
      hasId == r1 # <<>> /\ Head(r1) = "#"
      idLen == IF hasId THEN prefixLen(Tail(r1), IdChars) ELSE 0
      r2 == IF hasId THEN SubSeq(r1, idLen + 2, Len(r1)) ELSE r1
      hasClasses == r2 # <<>> /\ Head(r2) = "."
      classes == IF hasClasses THEN Tail(r2) ELSE <<>>
  IN  [matched |-> /\ hasId => idLen > 0
                   /\ IF hasClasses
                      THEN classes # <<>> /\ prefixLen(classes, ClassChars) = Len(classes)
                      ELSE r2 = <<>>,
       tag |-> SubSeq(selectorPart, 1, tagLen),
       id |-> IF hasId THEN SubSeq(r1, 2, idLen + 1) ELSE <<>>,
       classes |-> classes]

ID == <<"i", "d">>

CLASS == <<"c", "l", "a", "s", "s">>

\* _matchNode without the test that the node is an ElementNode
matchNode_anyNode(node, selectorPart) ==
  LET m == selectorMatch(selectorPart)
      nodeClasses == IF hasAttr(node.attributes, CLASS) /\ getAttr(node.attributes, CLASS) # <<>>
                     THEN Range(split(getAttr(node.attributes, CLASS), " "))
                     ELSE {}
  IN  /\ m.matched
      /\ m.tag # <<>> => lowerCased(node.tag) = lowerCased(m.tag)
      /\ m.id # <<>> => hasAttr(node.attributes, ID) /\ getAttr(node.attributes, ID) = m.id
      /\ m.classes # <<>> => Range(split(m.classes, ".")) \subseteq nodeClasses

\* Node._matchNode(node, selectorPart)
matchNode(node, selectorPart) ==
  LET m == selectorMatch(selectorPart)
      nodeClasses == IF hasAttr(node.attributes, CLASS) /\ getAttr(node.attributes, CLASS) # <<>>
                     THEN Range(split(getAttr(node.attributes, CLASS), " "))
                     ELSE {}
  IN  /\ node.type = "element"
      /\ m.matched
      /\ m.tag # <<>> => lowerCased(node.tag) = lowerCased(m.tag)
      /\ m.id # <<>> => hasAttr(node.attributes, ID) /\ getAttr(node.attributes, ID) = m.id
      /\ m.classes # <<>> => Range(split(m.classes, ".")) \subseteq nodeClasses

\* Node._findAllMatches(startNode, selectorParts, partIndex, resultsSet) and
\* Node._findDescendantsAndMatch, the definitions that are in force (the
\* later ones of the class body).  query passes an array as resultsSet, so
\* resultsSet.add(startNode) throws a TypeError; the operators say whether
\* the traversal reaches that call.  partIndex is 1-based here.
RECURSIVE findAllMatches(_, _, _, _)
RECURSIVE findDescendantsAndMatch(_, _, _, _)
findAllMatches(nodes, startNode, selectorParts, partIndex) ==
  IF partIndex > Len(selectorParts) THEN FALSE
  ELSE LET part == selectorParts[partIndex]
           kids == nodes[startNode].children
       IN  IF part.type = "combinator"
           THEN IF part.value = <<">">>
                THEN \E i \in DOMAIN kids :
                       /\ nodes[kids[i]].type = "element"
                       /\ findAllMatches(nodes, kids[i], selectorParts, partIndex + 1)
                ELSE findDescendantsAndMatch(nodes, startNode, selectorParts, partIndex + 1)
           ELSE \/ /\ matchNode(nodes[startNode], part.value)
                   /\ \/ partIndex = Len(selectorParts)
                      \/ \E i \in DOMAIN kids :
                           findAllMatches(nodes, kids[i], selectorParts, partIndex + 1)
                \/ \E i \in DOMAIN kids :
                     /\ nodes[kids[i]].parent = startNode
                     /\ findAllMatches(nodes, kids[i], selectorParts, partIndex)

findDescendantsAndMatch(nodes, startNode, selectorParts, partIndex) ==
  \E i \in DOMAIN nodes[startNode].children :
    LET child == nodes[startNode].children[i]
    IN  /\ nodes[child].type \in {"element", "document"}
        /\ \/ findAllMatches(nodes, child, selectorParts, partIndex)
           \/ findDescendantsAndMatch(nodes, child, selectorParts, partIndex)

Returned(ids) == [outcome |-> "returned", nodes |-> ids]

Threw(kind) == [outcome |-> kind, nodes |-> <<>>]

\* node.query(selector): nothing is ever added to allResults, so a call that
\* returns gives Array.from(allResults) = []
query(nodes, node, selector) ==
  IF nodes[node].type \in {"text", "comment"} THEN Returned(<<>>)
  ELSE IF \E i \in DOMAIN individualSelectors(selector) :
            findAllMatches(nodes, node, parsedSelectorParts(individualSelectors(selector)[i]), 1)
  THEN Threw("TypeError")
  ELSE Returned(<<>>)

----------------------------------------------------------------------------
(* nodes.js: toHTML and toText *)

\* strings.join(sep)
RECURSIVE join(_, _)
join(strings, sep) ==
  IF strings = <<>> THEN <<>>
  ELSE IF Len(strings) = 1 THEN strings[1]
  ELSE strings[1] \o sep \o join(Tail(strings), sep)

\* ' '.repeat(n)
repeat(c, n) == [i \in 1..n |-> c]

\* Object.entries(attributes).map(([key, value]) => `${key}="${value}"`).join(' ')
attrsHTML(attrs) ==
  join([i \in DOMAIN attrs |-> attrs[i].name \o <<"=", "\"">> \o attrs[i].value \o <<"\"">>],
       <<" ">>)

\* node.toHTML(options, indentLevel) of ElementNode, TextNode, CommentNode and
\* DocumentNode (the tree builder creates no DoctypeNode)
RECURSIVE toHTML(_, _, _, _)
toHTML(nodes, n, options, indentLevel) ==
  LET node == nodes[n]
  IN  CASE node.type = "text" -> node.text
        [] node.type = "comment" -> <<"<", "!", "-", "-">> \o node.text \o <<"-", "-", ">">>
        [] node.type = "element" ->
             LET indent == IF options.pretty
                           THEN repeat(" ", indentLevel * options.indentSize) ELSE <<>>
                 newline == IF options.pretty THEN <<"\n">> ELSE <<>>
                 attrs == attrsHTML(node.attributes)
                 tagAttrs == IF attrs # <<>> THEN <<" ">> \o attrs ELSE <<>>
                 kidsHTML == join([i \in DOMAIN node.children |->
                                     toHTML(nodes, node.children[i], options, indentLevel + 1)],
                                  <<>>)
                 childrenHTML == IF options.pretty /\ Len(node.children) > 0
                                 THEN newline \o kidsHTML \o newline \o indent
                                 ELSE kidsHTML
             IN  indent \o <<"<">> \o node.tag \o tagAttrs \o <<">">> \o childrenHTML
                   \o <<"<", "/">> \o node.tag \o <<">">>
        [] OTHER ->
             join([i \in DOMAIN node.children |->
                     toHTML(nodes, node.children[i], options, indentLevel)], <<>>)

\* textContent.replace(/\s+/g, ' ')
RECURSIVE collapseSpaces(_)
collapseSpaces(s) ==
  IF s = <<>> THEN <<>>
  ELSE IF isSpace(Head(s))
  THEN IF Len(s) > 1 /\ isSpace(s[2]) THEN collapseSpaces(Tail(s))
       ELSE <<" ">> \o collapseSpaces(Tail(s))
  ELSE <<Head(s)>> \o collapseSpaces(Tail(s))

\* node.toText(options) of ElementNode, TextNode, CommentNode and DocumentNode
RECURSIVE toText(_, _, _)
toText(nodes, n, options) ==
  LET node == nodes[n]
      texts == [i \in DOMAIN node.children |-> toText(nodes, node.children[i], options)]
  IN  CASE node.type = "text" -> node.text
        [] node.type = "comment" -> <<>>
        [] node.type = "element" -> join(texts, <<>>)
        [] OTHER -> trim(collapseSpaces(join(SelectSeq(texts, nonEmpty), options.separator)))

\* options = { pretty: true, indentSize: 2 }, the default, and { pretty: false }
PrettyOptions == [pretty |-> TRUE, indentSize |-> 2]

CompactOptions == [pretty |-> FALSE, indentSize |-> 0]

\* options = { separator: ' ' }, the default, and { separator: '' }
TextSeparators == {<<" ">>, <<>>}

----------------------------------------------------------------------------
(* Inputs *)

MaxTail == 1

Alphabet == {"<", ">", "/", "!", "-", "a", "B", " ", "\n", "=", "\"", "'"}

Strings(S, n) == UNION {[1..k -> S] : k \in 0..n}

\* one prefix for each state of the tokenizer
Prefixes ==
  {<<>>,
   <<"<">>,
   <<"<", "/">>,
   <<"<", "p">>,
   <<"<", "/", "p">>,
   <<"<", "p", " ">>,
   <<"<", "/", "p", " ">>,
   <<"<", "p", " ", "i">>,
   <<"<", "/", "p", " ", "i">>,
   <<"<", "p", " ", "i", "=">>,
   <<"<", "p", " ", "i", "=", "\"">>,
   <<"<", "p", " ", "i", "=", "'">>,
   <<"<", "p", " ", "i", "=", "x">>,
   <<"<", "!">>,
   <<"<", "!", "-", "-">>}

PrefixedInputs == {p \o s : p \in Prefixes, s \in Strings(Alphabet, MaxTail)}

MaxShort == 5

ShortAlphabet == {"<", ">", "a", "\n"}

ShortInputs == Strings(ShortAlphabet, MaxShort)

\* start tags with quoted attributes: <p i="1" id='A' ...>
MaxAttrs == 3

AttrNames == {<<"i">>, <<"i", "d">>, <<"I", "D">>}

AttrValues == {[value |-> <<"1">>, quote |-> "\""], [value |-> <<"A">>, quote |-> "'"]}

AttrChoices == {[name |-> n, value |-> v.value, quote |-> v.quote] : n \in AttrNames, v \in AttrValues}

TagSpecs ==
  {[tag |-> tg, attrs |-> a] : tg \in {<<"p">>, <<"P">>},
                               a \in UNION {[1..k -> AttrChoices] : k \in 0..MaxAttrs}}

RECURSIVE RenderAttrs(_)
RenderAttrs(attrs) ==
  IF attrs = <<>> THEN <<>>
  ELSE <<" ">> \o Head(attrs).name \o <<"=", Head(attrs).quote>> \o Head(attrs).value
         \o <<Head(attrs).quote>> \o RenderAttrs(Tail(attrs))

RenderTag(sp) == <<"<">> \o sp.tag \o RenderAttrs(sp.attrs) \o <<">">>

\* each tag with the html it is written as
TagRenderings == {[html |-> RenderTag(sp), spec |-> sp] : sp \in TagSpecs}

TagInputs == {r.html : r \in TagRenderings}

\* the tag an input of TagInputs was written from
TagSpecOf == [h \in TagInputs |-> (CHOOSE r \in TagRenderings : r.html = h).spec]

\* worked examples of the documentation and the tests
Examples ==
  {<<"<", "p", ">", "<", "/", "P", ">">>,
   <<"<", "P", ">", "<", "/", "p", ">">>,
   <<"<", "/", "p", " ", "i", ">">>,
   <<"<", "p", "B", ">">>,
   <<"<", "/", "p", "B", ">">>}

\* balanced markup, written as a sequence of events: the start tag of an
\* element, the end tag of the innermost open element, a text run, a comment,
\* a line break
MaxEvents == 4

OpenTags == [p |-> <<"p">>, div |-> <<"d", "i", "v">>]

Events == {"p", "div", "/", "text", "comment", "br"}

isOpen(e) == e \in DOMAIN OpenTags

\* the number of elements open after the first k events
depth(ev, k) ==
  Cardinality({j \in 1..k : isOpen(ev[j])}) - Cardinality({j \in 1..k : ev[j] = "/"})

\* the start tag event of the innermost element open before event i (0: none)
enclosing(ev, i) ==
  LET open == {j \in 1..(i - 1) :
                 isOpen(ev[j]) /\ \A k \in j..(i - 1) : depth(ev, k) >= depth(ev, j)}
  IN  IF open = {} THEN 0 ELSE CHOOSE j \in open : \A k \in open : k <= j

balanced(ev) ==
  /\ \A k \in DOMAIN ev : depth(ev, k) >= 0
  /\ depth(ev, Len(ev)) = 0
  /\ \A k \in 1..(Len(ev) - 1) : ~(ev[k] = "text" /\ ev[k + 1] = "text")

BalancedEvents == {ev \in Strings(Events, MaxEvents) : balanced(ev)}

TextRun == <<"H", "i">>

CommentText == <<" ", "c", " ">>

RenderEvent(ev, i) ==
  CASE isOpen(ev[i]) -> <<"<">> \o OpenTags[ev[i]] \o <<">">>
    [] ev[i] = "/" -> <<"<", "/">> \o OpenTags[ev[enclosing(ev, i)]] \o <<">">>
    [] ev[i] = "text" -> TextRun
    [] ev[i] = "comment" -> <<"<", "!", "-", "-">> \o CommentText \o <<"-", "-", ">">>
    [] ev[i] = "br" -> <<"<">> \o BR \o <<">">>

RECURSIVE RenderEvents(_, _)
RenderEvents(ev, i) ==
  IF i > Len(ev) THEN <<>> ELSE RenderEvent(ev, i) \o RenderEvents(ev, i + 1)

RenderMarkup(ev) == RenderEvents(ev, 1)

\* each event sequence with the html it is written as
MarkupRenderings == {[html |-> RenderMarkup(ev), events |-> ev] : ev \in BalancedEvents}

MarkupInputs == {r.html : r \in MarkupRenderings}

\* the events an input of MarkupInputs was written from
EventsOf == [h \in MarkupInputs |-> (CHOOSE r \in MarkupRenderings : r.html = h).events]

\* markup that ends with elements still open: every end tag closes the
\* innermost open element, but at least one element is never closed
unclosed(ev) ==
  /\ \A k \in DOMAIN ev : depth(ev, k) >= 0
  /\ depth(ev, Len(ev)) > 0
  /\ \A k \in 1..(Len(ev) - 1) : ~(ev[k] = "text" /\ ev[k + 1] = "text")
  /\ "comment" \notin Range(ev)

UnclosedEvents == {ev \in Strings(Events, MaxEvents) : unclosed(ev)}

UnclosedRenderings == {[html |-> RenderMarkup(ev), events |-> ev] : ev \in UnclosedEvents}

UnclosedInputs == {r.html : r \in UnclosedRenderings}

\* the events an input of UnclosedInputs was written from
UnclosedEventsOf ==
  [h \in UnclosedInputs |-> (CHOOSE r \in UnclosedRenderings : r.html = h).events]

\* the html of the README's example (Usage: Parsing HTML)
Readme ==
  <<"\n", "<", "!", "D", "O", "C", "T", "Y", "P", "E", " ", "h", "t", "m",
    "l", ">", "\n", "<", "h", "t", "m", "l", ">", "\n", "<", "h", "e", "a",
    "d", ">", "\n", " ", " ", "<", "t", "i", "t", "l", "e", ">", "M", "y",
    " ", "A", "w", "e", "s", "o", "m", "e", " ", "P", "a", "g", "e", "<",
    "/", "t", "i", "t", "l", "e", ">", "\n", "<", "/", "h", "e", "a", "d",
    ">", "\n", "<", "b", "o", "d", "y", ">", "\n", " ", " ", "<", "d", "i",
    "v", " ", "i", "d", "=", "\"", "m", "a", "i", "n", "\"", ">", "\n", " ",
    " ", " ", " ", "<", "p", " ", "c", "l", "a", "s", "s", "=", "\"", "g",
    "r", "e", "e", "t", "i", "n", "g", "\"", ">", "H", "e", "l", "l", "o",
    ",", " ", "<", "b", ">", "w", "o", "r", "l", "d", "<", "/", "b", ">",
    "!", "<", "/", "p", ">", "\n", " ", " ", " ", " ", "<", "p", " ", "c",
    "l", "a", "s", "s", "=", "\"", "f", "a", "r", "e", "w", "e", "l", "l",
    "\"", ">", "G", "o", "o", "d", "b", "y", "e", "!", "<", "/", "p", ">",
    "\n", " ", " ", " ", " ", "<", "!", "-", "-", " ", "A", " ", "s", "i",
    "m", "p", "l", "e", " ", "c", "o", "m", "m", "e", "n", "t", " ", "-",
    "-", ">", "\n", " ", " ", "<", "/", "d", "i", "v", ">", "\n", "<", "/",
    "b", "o", "d", "y", ">", "\n", "<", "/", "h", "t", "m", "l", ">", "\n">>

\* the document of testQuery
QueryByTag ==
  <<"<", "d", "i", "v", ">", "<", "p", ">", "H", "e", "l", "l", "o", "<",
    "/", "p", ">", "<", "p", ">", "W", "o", "r", "l", "d", "<", "/", "p",
    ">", "<", "/", "d", "i", "v", ">">>

\* the document of testQueryClass and testQueryId
QueryByClassAndId ==
  <<"<", "d", "i", "v", ">", "<", "p", " ", "c", "l", "a", "s", "s", "=",
    "\"", "f", "o", "o", "\"", ">", "H", "e", "l", "l", "o", "<", "/", "p",
    ">", "<", "p", " ", "i", "d", "=", "\"", "b", "a", "r", "\"", ">", "W",
    "o", "r", "l", "d", "<", "/", "p", ">", "<", "/", "d", "i", "v", ">">>

\* nested ancestors, and a b before and after the last p in document order
NestedDoc ==
  <<"<", "d", "i", "v", ">", "<", "d", "i", "v", ">", "<", "p", ">", "a",
    "<", "b", ">", "c", "<", "/", "b", ">", "<", "/", "p", ">", "<", "/",
    "d", "i", "v", ">", "<", "/", "d", "i", "v", ">", "<", "b", ">", "d",
    "<", "/", "b", ">">>

\* class tokens separated by a tab, a space and a run of newlines
ClassTokensDoc ==
  <<"<", "p", " ", "c", "l", "a", "s", "s", "=", "\"", "x", "\t", "y", " ",
    "z", "\"", ">", "<", "b", " ", "c", "l", "a", "s", "s", "=", "\"", "y",
    "\n", "\n", "x", "\"", ">", "a", "<", "/", "b", ">", "<", "/", "p", ">">>

\* a comment and a text run
CommentDoc ==
  <<"<", "!", "-", "-", " ", "c", " ", "-", "-", ">", "H", "i">>

\* the document of testToHTML
ToHTMLDoc ==
  <<"<", "p", " ", "i", "d", "=", "\"", "f", "o", "o", "\"", " ", "c", "l",
    "a", "s", "s", "=", "\"", "b", "a", "r", "\"", ">", "H", "e", "l", "l",
    "o", ",", " ", "w", "o", "r", "l", "d", "!", "<", "/", "p", ">">>

\* the document of testToText
ToTextDoc ==
  <<"<", "p", ">", "H", "e", "l", "l", "o", ",", " ", "<", "b", ">", "w",
    "o", "r", "l", "d", "<", "/", "b", ">", "!", "<", "/", "p", ">">>

\* text runs with leading, trailing and repeated whitespace
WhitespaceDoc ==
  <<" ", "a", " ", " ", "b", "<", "p", ">", "\n", "c", " ", "<", "/", "p", ">">>

\* markup in canonical form: lower-case tags that are closed in order,
\* double-quoted attributes with distinct names after one space each, text
\* without "<"
CanonicalAttrs ==
  {[name |-> n, value |-> v, quote |-> "\""] :
     n \in {<<"i">>, <<"i", "d">>}, v \in {<<"1">>, <<"a", " ", "b">>}}

CanonicalAttrLists ==
  {a \in UNION {[1..k -> CanonicalAttrs] : k \in 0..2} :
     \A i, j \in DOMAIN a : i # j => a[i].name # a[j].name}

CanonicalBodies ==
  {<<>>,
   <<"H", "i">>,
   <<"<", "b", ">", "H", "i", "<", "/", "b", ">">>,
   <<"H", "i", "<", "b", ">", "<", "/", "b", ">", "!">>}

CanonicalEvents == {ev \in BalancedEvents : Range(ev) \cap {"br", "comment"} = {}}

CanonicalInputs ==
  {RenderTag([tag |-> <<"p">>, attrs |-> a]) \o body \o <<"<", "/", "p", ">">> :
     a \in CanonicalAttrLists, body \in CanonicalBodies}
    \cup {RenderMarkup(ev) : ev \in CanonicalEvents}
    \cup {ToHTMLDoc, ToTextDoc}

\* the documents that are serialized
SerializeDocs == CanonicalInputs \cup MarkupInputs \cup {WhitespaceDoc, CommentDoc}

QueryDocs == {QueryByTag, QueryByClassAndId, NestedDoc, ClassTokensDoc, CommentDoc}

\* the selectors passed to node.query
QuerySelectors ==
  {<<"p">>,
   <<".", "f", "o", "o">>,
   <<"#", "b", "a", "r">>,
   <<"d", "i", "v", " ", ">", " ", "p">>,
   <<"d", "i", "v", " ", "p">>,
   <<"d", "i", "v", " ", "b">>,
   <<"d", "i", "v", " ", ">", " ", "b">>,
   <<"b", ",", " ", "p">>,
   <<"p", ",", " ", "b">>,
   <<"i">>,
   <<"p", "[", "x", "]">>,
   <<"p", ":", "f", "i", "r", "s", "t">>,
   <<"p", "[", "x", "]", ",", " ", "p">>,
   <<"d", "i", "v", ">", "p">>,
   <<" ", " ", "d", "i", "v", " ", " ", " ", ">", " ", " ", " ", "p", " ", " ">>,
   <<"d", "i", "v", " ", " ", " ", " ", "p">>,
   <<"p", ",", ",", "b">>,
   <<"p", ",", "b">>}

\* the selector parts passed to Node._matchNode
SelectorParts ==
  {<<>>,
   <<"p">>,
   <<"P">>,
   <<"b">>,
   <<".", "x">>,
   <<".", "y">>,
   <<".", "x", ".", "z">>,
   <<".", "f", "o", "o">>,
   <<"#", "b", "a", "r">>,
   <<"p", ".", "f", "o", "o">>,
   <<"b", "#", "b", "a", "r">>,
   <<"*">>,
   <<"p", "[", "x", "]">>,
   <<"p", ":", "f", "i", "r", "s", "t">>}

\* the document of testComments
TestCommentsDoc ==
  <<"<", "!", "-", "-", " ", "T", "h", "i", "s", " ", "i", "s", " ", "a", " ",
    "c", "o", "m", "m", "e", "n", "t", " ", "-", "-", ">">>

\* comments: <!-- + body + -->, the body without "-->"
CommentBodies ==
  {<<>>, <<"-">>, <<"a", ">", "-">>, CommentText,
   SubSeq(TestCommentsDoc, 5, Len(TestCommentsDoc) - 3)}

CommentInputs ==
  {<<"<", "!", "-", "-">> \o body \o <<"-", "-", ">">> : body \in CommentBodies}

\* the beginnings of a tag at which the input can end
PartialTags ==
  {<<"<">>,
   <<"<", "/">>,
   <<"<", "p">>,
   <<"<", "/", "p">>,
   <<"<", "p", " ">>,
   <<"<", "/", "p", " ">>,
   <<"<", "p", " ", "i">>,
   <<"<", "p", " ", "i", "=">>,
   <<"<", "p", " ", "i", "=", "x">>,
   <<"<", "p", " ", "i", "=", "\"", "x">>,
   <<"<", "p", " ", "i", "=", "'", "x">>,
   <<"<", "p", " ", "i", "=", "\"", "x", "\"">>}

\* the beginnings of a comment at which the input can end
PartialComments ==
  {<<"<", "!", "-", "-">>,
   <<"<", "!", "-", "-">> \o CommentText,
   <<"<", "!", "-", "-">> \o CommentText \o <<"-", "-">>}

PartialConstructs == PartialTags \cup PartialComments

\* what stands before the construct that the input ends in
CompletedBefore == {<<>>, <<"a">>, <<"<", "p", ">">>}

PartialInputs == {before \o partial : before \in CompletedBefore, partial \in PartialConstructs}

Inputs ==
  PrefixedInputs \cup ShortInputs \cup TagInputs \cup MarkupInputs \cup UnclosedInputs
    \cup Examples \cup CommentInputs \cup PartialInputs

Options == [strict : BOOLEAN, collectErrors : BOOLEAN]

----------------------------------------------------------------------------
(* parseHTML as a state machine *)

\* the tree builder before parseHTML constructs it
NoTreeBuilder == [nodes |-> <<>>, stack |-> <<>>]

\* nothing returned to the caller
NoResult == [returned |-> FALSE, root |-> NullNode, errors |-> <<>>]

\* the selectors the caller passes to query
Selectors == {<<"#", "m", "a", "i", "n">>, <<"p">>}

\* no call of query yet
NoQuery ==
  [origin |-> NullNode, selector |-> <<>>, outcome |-> "none", nodes |-> <<>>,
   repeated |-> FALSE]

\* the call of node.query(selector) is the same call as the previous one
sameCall(node, selector) ==
  queried.outcome # "none" /\ queried.origin = node /\ queried.selector = selector

\* no call of Node._matchNode yet
NoMatch == [node |-> NullNode, part |-> <<>>, called |-> FALSE, result |-> FALSE]

\* no call of toHTML or toText yet
NoSerialization == [method |-> "none", pretty |-> FALSE, separator |-> <<>>, value |-> <<>>]

\* parseHTML(h, options) has constructed the tokenizer and entered run(h),
\* for some h of the set hs
InitWith(hs) ==
  /\ impl \in Impls
  /\ html \in hs
  /\ \E options \in Options : tokenizer = [Tokenizer(options) EXCEPT !.html = html]
  /\ treeBuilder = NoTreeBuilder
  /\ next_token = 1
  /\ result = NoResult
  /\ queried = NoQuery
  /\ matched = NoMatch
  /\ serialized = NoSerialization
  /\ pc = "run"

Init == InitWith(Inputs)

\* the README's example is the input
InitReadme == InitWith({Readme})

\* the documents that are queried are the input
InitQuery == InitWith(QueryDocs)

\* the documents that are serialized are the input
InitSerialize == InitWith(SerializeDocs)

\* an iteration of the loop of Tokenizer.run that completes
run_consume ==
  /\ pc = "run"
  /\ tokenizer.index < Len(tokenizer.html)
  /\ runStep(impl, tokenizer).thrown.kind = "none"
  /\ tokenizer' = runStep(impl, tokenizer)
  /\ UNCHANGED <<impl, html, treeBuilder, next_token, result, queried, matched, pc, serialized>>

\* an iteration in which consume throws: the exception leaves run and parseHTML
run_throw ==
  /\ pc = "run"
  /\ tokenizer.index < Len(tokenizer.html)
  /\ runStep(impl, tokenizer).thrown.kind # "none"
  /\ tokenizer' = runStep(impl, tokenizer)
  /\ pc' = "thrown"
  /\ UNCHANGED <<impl, html, treeBuilder, next_token, result, queried, matched, serialized>>

\* run returns the tokens; parseHTML constructs the tree builder
run_return ==
  /\ pc = "run"
  /\ tokenizer.index >= Len(tokenizer.html)
  /\ treeBuilder' = TreeBuilder
  /\ next_token' = 1
  /\ pc' = "build"
  /\ UNCHANGED <<impl, html, tokenizer, result, queried, matched, serialized>>

\* an iteration of the loop of TreeBuilder.run
build_token ==
  /\ pc = "build"
  /\ next_token <= Len(tokenizer.tokens)
  /\ treeBuilder' = process_token(treeBuilder, tokenizer.tokens[next_token])
  /\ next_token' = next_token + 1
  /\ UNCHANGED <<impl, html, tokenizer, result, queried, matched, pc, serialized>>

\* parseHTML that reports the elements left open as an error
parse_return_reportOpen ==
  /\ pc = "build"
  /\ next_token > Len(tokenizer.tokens)
  /\ result' = [returned |-> TRUE, root |-> Document,
                errors |-> IF Len(treeBuilder.stack) > 1
                           THEN Append(tokenizer.errors,
                                       ParseError("Unclosed element", tokenizer.line,
                                                  tokenizer.column, tokenizer.index))
                           ELSE tokenizer.errors]
  /\ pc' = "done"
  /\ UNCHANGED <<impl, html, tokenizer, treeBuilder, next_token, queried, matched, serialized>>

\* parseHTML returns the result object
parse_return ==
  /\ pc = "build"
  /\ next_token > Len(tokenizer.tokens)
  /\ result' = [returned |-> TRUE, root |-> Document, errors |-> tokenizer.errors]
  /\ pc' = "done"
  /\ UNCHANGED <<impl, html, tokenizer, treeBuilder, next_token, queried, matched, serialized>>

\* the caller calls query(selector) of the returned object
doc_query ==
  /\ pc = "done"
  /\ \E selector \in Selectors :
       queried' = [origin |-> result.root,
                   selector |-> selector,
                   outcome |-> query(treeBuilder.nodes, result.root, selector).outcome,
                   nodes |-> query(treeBuilder.nodes, result.root, selector).nodes,
                   repeated |-> sameCall(result.root, selector)]
  /\ UNCHANGED <<impl, html, tokenizer, treeBuilder, next_token, result, matched, pc, serialized>>

\* a query that detaches the children of its origin when it is done
node_query_consuming ==
  /\ pc = "done"
  /\ \E node \in DOMAIN treeBuilder.nodes, selector \in QuerySelectors :
       /\ queried' = [origin |-> node,
                      selector |-> selector,
                      outcome |-> query(treeBuilder.nodes, node, selector).outcome,
                      nodes |-> query(treeBuilder.nodes, node, selector).nodes,
                      repeated |-> sameCall(node, selector)]
       /\ treeBuilder' = [treeBuilder EXCEPT !.nodes[node].children = <<>>]
  /\ matched' = NoMatch
  /\ UNCHANGED <<impl, html, tokenizer, next_token, result, pc, serialized>>

\* a query that notes the selector in the text of its origin
node_query_noting ==
  /\ pc = "done"
  /\ \E node \in DOMAIN treeBuilder.nodes, selector \in QuerySelectors :
       /\ queried' = [origin |-> node,
                      selector |-> selector,
                      outcome |-> query(treeBuilder.nodes, node, selector).outcome,
                      nodes |-> query(treeBuilder.nodes, node, selector).nodes,
                      repeated |-> sameCall(node, selector)]
       /\ treeBuilder' = [treeBuilder EXCEPT !.nodes[node].text = selector]
  /\ matched' = NoMatch
  /\ UNCHANGED <<impl, html, tokenizer, next_token, result, pc, serialized>>

\* the caller calls node.query(selector) on a node of the returned tree;
\* queried and matched hold the outcome of the most recent call
node_query ==
  /\ pc = "done"
  /\ \E node \in DOMAIN treeBuilder.nodes, selector \in QuerySelectors :
       queried' = [origin |-> node,
                   selector |-> selector,
                   outcome |-> query(treeBuilder.nodes, node, selector).outcome,
                   nodes |-> query(treeBuilder.nodes, node, selector).nodes,
                   repeated |-> sameCall(node, selector)]
  /\ matched' = NoMatch
  /\ UNCHANGED <<impl, html, tokenizer, treeBuilder, next_token, result, pc, serialized>>

\* the caller calls Node._matchNode(node, selectorPart) on a node of the
\* returned tree
match_node ==
  /\ pc = "done"
  /\ \E node \in DOMAIN treeBuilder.nodes, part \in SelectorParts :
       matched' = [node |-> node, part |-> part, called |-> TRUE,
                   result |-> matchNode(treeBuilder.nodes[node], part)]
  /\ queried' = NoQuery
  /\ UNCHANGED <<impl, html, tokenizer, treeBuilder, next_token, result, pc, serialized>>

\* the caller calls toHTML(options) of the returned object
doc_toHTML ==
  /\ pc = "done"
  /\ \E options \in {PrettyOptions, CompactOptions} :
       serialized' = [method |-> "toHTML",
                      pretty |-> options.pretty,
                      separator |-> <<>>,
                      value |-> toHTML(treeBuilder.nodes, result.root, options, 0)]
  /\ UNCHANGED <<impl, html, tokenizer, treeBuilder, next_token, result, queried, matched, pc>>

\* the caller calls toText(options) of the returned object
doc_toText ==
  /\ pc = "done"
  /\ \E separator \in TextSeparators :
       serialized' = [method |-> "toText",
                      pretty |-> FALSE,
                      separator |-> separator,
                      value |-> toText(treeBuilder.nodes, result.root,
                                       [separator |-> separator])]
  /\ UNCHANGED <<impl, html, tokenizer, treeBuilder, next_token, result, queried, matched, pc>>

Next ==
  \/ run_consume
  \/ run_throw
  \/ run_return
  \/ build_token
  \/ parse_return
  \/ doc_query

Spec == Init /\ [][Next]_vars

\* parseHTML followed by calls of node.query and Node._matchNode
NextQuery ==
  \/ run_consume
  \/ run_throw
  \/ run_return
  \/ build_token
  \/ parse_return
  \/ node_query
  \/ match_node

SpecQuery == InitQuery /\ [][NextQuery]_vars

SpecReadme == InitReadme /\ [][Next]_vars

\* parseHTML followed by calls of toHTML and toText
NextSerialize ==
  \/ run_consume
  \/ run_throw
  \/ run_return
  \/ build_token
  \/ parse_return
  \/ doc_toHTML
  \/ doc_toText

SpecSerialize == InitSerialize /\ [][NextSerialize]_vars

\* the number of tokens handed to TreeBuilder.run
MaxTokens == 4

\* the tokens handed to TreeBuilder.run
TokenAlphabet ==
  {Character("a"), Comment(CommentText),
   StartTag(<<"p">>, <<>>), StartTag(BR, <<>>),
   StartTag(<<"d", "i", "v">>, <<[name |-> <<"i", "d">>, value |-> <<"x">>]>>),
   EndTag(<<"p">>), EndTag(<<"d", "i", "v">>), EndTag(BR)}

TokenSequences == Strings(TokenAlphabet, MaxTokens)

\* new TreeBuilder().run(tokens) has been entered, for some sequence of
\* tokens; no tokenizer takes part
InitBuild ==
  /\ impl = "src"
  /\ html = <<>>
  /\ \E tokens \in TokenSequences :
       tokenizer = [Tokenizer([strict |-> FALSE, collectErrors |-> FALSE])
                      EXCEPT !.tokens = tokens]
  /\ treeBuilder = TreeBuilder
  /\ next_token = 1
  /\ result = NoResult
  /\ queried = NoQuery
  /\ matched = NoMatch
  /\ serialized = NoSerialization
  /\ pc = "build"

\* the loop of TreeBuilder.run
NextBuild == build_token

SpecBuild == InitBuild /\ [][NextBuild]_vars

----------------------------------------------------------------------------
(* Properties *)

DefaultOptions == [strict |-> FALSE, collectErrors |-> FALSE]

CollectingOptions == [strict |-> FALSE, collectErrors |-> TRUE]

finished == pc \in {"done", "thrown"}

\* the tree of a document whose only node besides the root is one Text node
SingleTextTree(text) ==
  <<[DocumentNode EXCEPT !.children = <<2>>],
    [TextNode(text) EXCEPT !.parent = Document]>>

\* C1 as stated: every input without "<", parsed with the default options,
\* gives a root with exactly one child, a Text node holding the input, and
\* no other node.
C1_TextOnlyAnyInput ==
  (pc = "done" /\ tokenizer.options = DefaultOptions /\ "<" \notin Range(html))
    => treeBuilder.nodes = SingleTextTree(html)

\* C1 amended: every non-empty input without "<", parsed with the default
\* options, is parsed without an exception and gives a root with exactly one
\* child, a Text node holding the input, and no other node.
C1_TextOnly ==
  (tokenizer.options = DefaultOptions /\ "<" \notin Range(html) /\ html # <<>>)
    => /\ pc # "thrown"
       /\ pc = "done" => /\ treeBuilder.nodes = SingleTextTree(html)
                         /\ result.returned /\ result.root = Document

C1_Witness ==
  /\ pc = "done"
  /\ tokenizer.options = DefaultOptions
  /\ "<" \notin Range(html)
  /\ Len(html) >= 3
  /\ "\n" \in Range(html)
  /\ Len(treeBuilder.nodes) = 2

\* C2: with strict false no exception of any kind escapes run, whatever the
\* input.
C2_NoExceptionEscapes ==
  ~tokenizer.options.strict => pc # "thrown"

\* the run of the same revision on the same input in collecting mode
collectingRun == run(impl, CollectingOptions, html)

\* C3: with strict true the first illegal character raises a ParseError at
\* once: the position has not moved past that character, nothing is recorded
\* in the errors list (also when collectErrors is set), and neither a tree
\* builder nor a result object exists; an input with an illegal character
\* never gets past the tokenizer.
C3_StrictAborts ==
  tokenizer.options.strict =>
    /\ tokenizer.errors = <<>>
    /\ (pc = "thrown" /\ tokenizer.thrown.kind = "ParseError") =>
         /\ tokenizer.thrown.error.index = tokenizer.index
         /\ collectingRun.errors # <<>>
         /\ collectingRun.errors[1].index = tokenizer.index
         /\ treeBuilder = NoTreeBuilder
         /\ result = NoResult
    /\ (pc \in {"build", "done"}) => collectingRun.errors = <<>>

C3_Witness ==
  /\ pc = "thrown"
  /\ tokenizer.options.strict
  /\ tokenizer.options.collectErrors
  /\ tokenizer.thrown.kind = "ParseError"
  /\ tokenizer.index >= 2
  /\ tokenizer.index + 1 < Len(html)

\* the position of the character at 0-based index k of h
lineOf(h, k) == 1 + Cardinality({j \in 1..k : h[j] = "\n"})

columnOf(h, k) ==
  LET newlines == {j \in 1..k : h[j] = "\n"}
      last == IF newlines = {} THEN 0
              ELSE CHOOSE j \in newlines : \A m \in newlines : m <= j
  IN  1 + (k - last)

C5_StrictMatchesFirstCollected ==
  (tokenizer.options.strict /\ finished /\ collectingRun.errors # <<>>)
    => /\ pc = "thrown"
       /\ tokenizer.thrown.kind = "ParseError"
       /\ tokenizer.thrown.error = collectingRun.errors[1]

C5_Witness ==
  /\ pc = "thrown"
  /\ tokenizer.options.strict
  /\ tokenizer.thrown.kind = "ParseError"
  /\ Len(collectingRun.errors) >= 2
  /\ tokenizer.thrown.error.line = 2

\* tokenization has ended with the tokens returned
tokenized == pc \in {"build", "done"}

isLowerCase(name) == \A i \in DOMAIN name : name[i] \in Range(LowerLetters)

foldedNames(sp) == {lowerCased(sp.attrs[i].name) : i \in DOMAIN sp.attrs}

distinctNames(sp) ==
  \A i, j \in DOMAIN sp.attrs :
    i # j => lowerCased(sp.attrs[i].name) # lowerCased(sp.attrs[j].name)

\* the attributes as written, names folded, in source order
writtenAttrs(sp) ==
  [i \in DOMAIN sp.attrs |->
     [name |-> lowerCased(sp.attrs[i].name), value |-> sp.attrs[i].value]]

\* the value written last for a name
lastValue(sp, n) ==
  LET is == {i \in DOMAIN sp.attrs : lowerCased(sp.attrs[i].name) = n}
  IN  sp.attrs[CHOOSE i \in is : \A j \in is : j <= i].value

\* the input is a start tag of TagInputs and its tokens have been returned
tagTokenized == tokenized /\ next_token = 1 /\ html \in TagInputs

\* C7: a start tag whose quoted attributes have pairwise distinct names
\* (also when one name is a prefix of another) is emitted as one StartTag whose
\* attribute map holds exactly those names with their own values, in source
\* order.
C7_DistinctAttributes ==
  (tagTokenized /\ distinctNames(TagSpecOf[html]))
    => tokenizer.tokens =
         <<StartTag(lowerCased(TagSpecOf[html].tag), writtenAttrs(TagSpecOf[html]))>>

\* C8: a name written more than once has a single entry holding the value
\* written last, and the other attributes of the tag keep their values.
C8_LastWriteWins ==
  (tagTokenized /\ ~distinctNames(TagSpecOf[html]))
    => /\ Len(tokenizer.tokens) = 1
       /\ tokenizer.tokens[1].type = "StartTag"
       /\ LET attrs == tokenizer.tokens[1].attributes
              sp == TagSpecOf[html]
          IN  /\ {attrs[i].name : i \in DOMAIN attrs} = foldedNames(sp)
              /\ Len(attrs) = Cardinality(foldedNames(sp))
              /\ \A i \in DOMAIN attrs : attrs[i].value = lastValue(sp, attrs[i].name)

tagTokens == {tokenizer.tokens[i] : i \in {j \in DOMAIN tokenizer.tokens :
                                            tokenizer.tokens[j].type \in {"StartTag", "EndTag"}}}

\* the same tag written in lower case, the attribute values untouched
foldedSpec(sp) ==
  [tag |-> lowerCased(sp.tag),
   attrs |-> [i \in DOMAIN sp.attrs |-> [sp.attrs[i] EXCEPT !.name = lowerCased(@)]]]

\* C9: tag names and attribute names of emitted tags are non-empty and
\* lower-case; a tag written with upper-case names gives the tokens of the
\* same tag written in lower case; the value of an attribute keeps its case;
\* </P> closes <p>.
C9_NamesLowerCase ==
  /\ \A tok \in tagTokens :
       /\ tok.tag # <<>> /\ isLowerCase(tok.tag)
       /\ \A i \in DOMAIN tok.attributes :
            tok.attributes[i].name # <<>> /\ isLowerCase(tok.attributes[i].name)
  /\ tagTokenized =>
       LET sp == TagSpecOf[html]
       IN  /\ tokenizer.tokens = run(impl, tokenizer.options, RenderTag(foldedSpec(sp))).tokens
           /\ Len(sp.attrs) = 1 =>
                tokenizer.tokens = <<StartTag(lowerCased(sp.tag), writtenAttrs(sp))>>
  /\ (pc = "done" /\ html \in {<<"<", "p", ">", "<", "/", "P", ">">>,
                               <<"<", "P", ">", "<", "/", "p", ">">>}) =>
         /\ treeBuilder.stack = <<Document>>
         /\ treeBuilder.nodes =
              <<[DocumentNode EXCEPT !.children = <<2>>],
                [ElementNode(<<"p">>) EXCEPT !.parent = Document]>>

C9_Witness ==
  /\ pc = "done"
  /\ html = <<"<", "P", " ", "I", "D", "=", "'", "A", "'", ">">>
  /\ tokenizer.tokens = <<StartTag(<<"p">>, <<[name |-> <<"i", "d">>, value |-> <<"A">>]>>)>>

\* the nodes of the markup written from ev, numbered in source order after
\* the root: one node for each event that is not an end tag
nodeEvents(ev) == {i \in DOMAIN ev : ev[i] # "/"}

nodeId(ev, i) == 1 + Cardinality({j \in nodeEvents(ev) : j <= i})

parentId(ev, i) == IF enclosing(ev, i) = 0 THEN Document ELSE nodeId(ev, enclosing(ev, i))

\* the node ids of a set of events, in source order
RECURSIVE idsInOrder(_, _)
idsInOrder(ev, is) ==
  IF is = {} THEN <<>>
  ELSE LET i == CHOOSE j \in is : \A k \in is : j <= k
       IN  <<nodeId(ev, i)>> \o idsInOrder(ev, is \ {i})

childIds(ev, parent) == idsInOrder(ev, {i \in nodeEvents(ev) : parentId(ev, i) = parent})

sourceNode(ev, i) ==
  LET node == CASE isOpen(ev[i]) -> ElementNode(OpenTags[ev[i]])
                [] ev[i] = "br" -> ElementNode(BR)
                [] ev[i] = "text" -> TextNode(TextRun)
                [] ev[i] = "comment" -> CommentNode(CommentText)
  IN  [node EXCEPT !.parent = parentId(ev, i), !.children = childIds(ev, nodeId(ev, i))]

\* the tree that mirrors the nesting of the markup written from ev
sourceTree(ev) ==
  [n \in 1..(1 + Cardinality(nodeEvents(ev))) |->
     IF n = Document THEN [DocumentNode EXCEPT !.children = childIds(ev, Document)]
     ELSE sourceNode(ev, CHOOSE i \in nodeEvents(ev) : nodeId(ev, i) = n)]

\* C10: balanced markup is parsed into the tree that mirrors its nesting:
\* the children of each element are the elements, text runs and comments
\* between its start and end tag, in source order, with that element as
\* parent, and only the root is left on the stack.
C10_BalancedMarkup ==
  (html \in MarkupInputs) =>
    /\ pc # "thrown"
    /\ pc = "done" => /\ treeBuilder.nodes = sourceTree(EventsOf[html])
                      /\ treeBuilder.stack = <<Document>>


----------------------------------------------------------------------------
(* C6 *)

isElement(n, tag) ==
  /\ n \in DOMAIN treeBuilder.nodes
  /\ treeBuilder.nodes[n].type = "element"
  /\ treeBuilder.nodes[n].tag = tag

\* C6: for the README's example document parsed with {collectErrors: true},
\* parseHTML returns, query('#main') returns a list whose first node is the
\* div element, and query('p') returns exactly two nodes, both p elements.
C6_ReadmeExample ==
  (html = Readme /\ tokenizer.options = CollectingOptions) =>
    /\ pc # "thrown"
    /\ queried.selector = <<"#", "m", "a", "i", "n">> =>
         /\ queried.outcome = "returned"
         /\ Len(queried.nodes) >= 1
         /\ isElement(queried.nodes[1], <<"d", "i", "v">>)
    /\ queried.selector = <<"p">> =>
         /\ queried.outcome = "returned"
         /\ Len(queried.nodes) = 2
         /\ \A i \in 1..2 : isElement(queried.nodes[i], <<"p">>)


----------------------------------------------------------------------------
(* C11 *)

\* the start tag events of the elements still open after the last event
openAtEnd(ev) ==
  {j \in DOMAIN ev : isOpen(ev[j]) /\ \A k \in j..Len(ev) : depth(ev, k) >= depth(ev, j)}

\* every node left on the stack above the root is an Element that is the
\* last child of the node below it on the stack
openElementsInTree ==
  \A k \in 2..Len(treeBuilder.stack) :
    LET n == treeBuilder.nodes[treeBuilder.stack[k]]
        below == treeBuilder.nodes[treeBuilder.stack[k - 1]]
    IN  /\ n.type = "element"
        /\ n.parent = treeBuilder.stack[k - 1]
        /\ below.children # <<>>
        /\ below.children[Len(below.children)] = treeBuilder.stack[k]

\* C11: input that ends with elements still open is parsed without an
\* exception and without an error; the returned tree holds the open elements
\* with the children gathered so far (<p> gives a root with one childless
\* Element p), they are still on the stack, and the errors returned are the
\* tokenizer's: the tree builder adds none.
C11_UnclosedElements ==
  /\ (html \in UnclosedInputs) =>
       /\ pc # "thrown"
       /\ pc = "done" =>
            /\ treeBuilder.nodes = sourceTree(UnclosedEventsOf[html])
            /\ treeBuilder.stack =
                 <<Document>> \o idsInOrder(UnclosedEventsOf[html],
                                            openAtEnd(UnclosedEventsOf[html]))
            /\ result.errors = <<>>
  /\ pc = "done" => result.errors = tokenizer.errors /\ openElementsInTree

C11_Witness ==
  /\ pc = "done"
  /\ html = <<"<", "p", ">">>
  /\ treeBuilder.stack = <<Document, 2>>
  /\ treeBuilder.nodes = <<[DocumentNode EXCEPT !.children = <<2>>],
                           [ElementNode(<<"p">>) EXCEPT !.parent = Document]>>
  /\ result.errors = <<>>


----------------------------------------------------------------------------
(* C12 - C17: what node.query returns *)

\* the nodes of the subtree of n in document order (pre-order, depth first)
RECURSIVE preorder(_, _)
RECURSIVE preorderOfAll(_, _)
preorder(nodes, n) == <<n>> \o preorderOfAll(nodes, nodes[n].children)

preorderOfAll(nodes, kids) ==
  IF kids = <<>> THEN <<>>
  ELSE preorder(nodes, Head(kids)) \o preorderOfAll(nodes, Tail(kids))

RECURSIVE isProperAncestor(_, _, _)
isProperAncestor(nodes, a, n) ==
  /\ nodes[n].parent # NullNode
  /\ nodes[n].parent = a \/ isProperAncestor(nodes, a, nodes[n].parent)

\* the elements selected by the chain parts[1..k] (k odd) from origin: the
\* matches of the first simple selector in the subtree of origin, then for
\* each (combinator, simple selector) step the matching children or proper
\* descendants of the elements selected by the step before
RECURSIVE selectedUpTo(_, _, _, _)
selectedUpTo(nodes, origin, parts, k) ==
  IF k = 1
  THEN {n \in Range(preorder(nodes, origin)) : matchNode(nodes[n], parts[1].value)}
  ELSE LET previous == selectedUpTo(nodes, origin, parts, k - 2)
       IN  {n \in DOMAIN nodes :
              /\ matchNode(nodes[n], parts[k].value)
              /\ \E a \in previous :
                   IF parts[k - 1].value = <<">">>
                   THEN nodes[n].parent = a
                   ELSE isProperAncestor(nodes, a, n)}

\* the elements selected by a selector list: the union over its selectors
selected(nodes, origin, selector) ==
  UNION {selectedUpTo(nodes, origin, parsedSelectorParts(individualSelectors(selector)[i]),
                      Len(parsedSelectorParts(individualSelectors(selector)[i])))
           : i \in DOMAIN individualSelectors(selector)}

\* the selected elements in document order
expected(nodes, origin, selector) ==
  LET isSelected(n) == n \in selected(nodes, origin, selector)
  IN  SelectSeq(preorder(nodes, Document), isSelected)

\* one selector that is a single simple selector
isSimple(selector) ==
  /\ Len(individualSelectors(selector)) = 1
  /\ Len(parsedSelectorParts(individualSelectors(selector)[1])) = 1

\* one selector with at least one combinator
isChain(selector) ==
  /\ Len(individualSelectors(selector)) = 1
  /\ Len(parsedSelectorParts(individualSelectors(selector)[1])) > 1

queryCalled == pc = "done" /\ queried.outcome # "none"

\* C12: a query with a single simple selector returns the matching elements
\* of the subtree of its origin, each once, in document order.
C12_SimpleSelector ==
  (queryCalled /\ isSimple(queried.selector)) =>
    /\ queried.outcome = "returned"
    /\ queried.nodes = expected(treeBuilder.nodes, queried.origin, queried.selector)


----------------------------------------------------------------------------
(* C13 *)

\* the whitespace-separated tokens of s
RECURSIVE tokensOf(_)
tokensOf(s) ==
  IF s = <<>> THEN {}
  ELSE IF isSpace(Head(s)) THEN tokensOf(Tail(s))
  ELSE LET n == prefixLen(s, Range(s) \ {" ", "\n", "\t"})
       IN  {SubSeq(s, 1, n)} \cup tokensOf(SubSeq(s, n + 1, Len(s)))

classTokens(node) ==
  IF hasAttr(node.attributes, CLASS) THEN tokensOf(getAttr(node.attributes, CLASS)) ELSE {}

\* all the constraints that are present in the simple selector m hold
constraintsHold(node, m) ==
  /\ m.tag # <<>> => lowerCased(node.tag) = lowerCased(m.tag)
  /\ m.id # <<>> => hasAttr(node.attributes, ID) /\ getAttr(node.attributes, ID) = m.id
  /\ m.classes # <<>> => Range(split(m.classes, ".")) \subseteq classTokens(node)

matchCalled == pc = "done" /\ matched.called

\* C13: a well-formed simple selector matches an Element exactly when its
\* tag (case-insensitively), its id (exactly) and each of its classes (as one
\* of the whitespace-separated tokens of the class attribute) hold, absent
\* constraints being true.
C13_SimpleSelectorMatch ==
  (/\ matchCalled
   /\ treeBuilder.nodes[matched.node].type = "element"
   /\ selectorMatch(matched.part).matched)
    => matched.result =
         constraintsHold(treeBuilder.nodes[matched.node], selectorMatch(matched.part))


----------------------------------------------------------------------------
(* C14 - C17 *)

\* C14: a query with a selector chain returns the set selected by its final
\* step: for ">" the matching direct Element children of the elements of
\* the previous step, for the descendant combinator their matching proper
\* descendants at any depth.
C14_SelectorChain ==
  (queryCalled /\ isChain(queried.selector)) =>
    /\ queried.outcome = "returned"
    /\ Range(queried.nodes) =
         selected(treeBuilder.nodes, queried.origin, queried.selector)

\* the position of node n in the document order of the whole tree
position(nodes, n) ==
  CHOOSE i \in DOMAIN preorder(nodes, Document) : preorder(nodes, Document)[i] = n

inDocumentOrder(nodes, ids) ==
  \A i, j \in DOMAIN ids : i < j => position(nodes, ids[i]) < position(nodes, ids[j])

\* C15: when a selector selects several elements, also through child or
\* descendant combinators and with matches nested in one another, the query
\* returns them in document order.
C15_DocumentOrder ==
  (queryCalled
     /\ Cardinality(selected(treeBuilder.nodes, queried.origin, queried.selector)) > 1) =>
    /\ queried.outcome = "returned"
    /\ Len(queried.nodes) > 1
    /\ \A i \in DOMAIN queried.nodes : queried.nodes[i] \in DOMAIN treeBuilder.nodes
    /\ inDocumentOrder(treeBuilder.nodes, queried.nodes)

BP == <<"b", ",", " ", "p">>

PB == <<"p", ",", " ", "b">>

\* C16: query("b, p") and query("p, b") return the same elements in the same
\* order, for every document.
C16_SelectorListOrder ==
  (queryCalled /\ queried.selector \in {BP, PB}) =>
    /\ queried.outcome = "returned"
    /\ query(treeBuilder.nodes, queried.origin, BP).outcome = "returned"
    /\ query(treeBuilder.nodes, queried.origin, PB).outcome = "returned"
    /\ query(treeBuilder.nodes, queried.origin, BP).nodes =
         query(treeBuilder.nodes, queried.origin, PB).nodes

\* C17: an element that the selector selects, also one selected by several
\* comma-separated selectors or reached from several nested ancestors, is in
\* the result exactly once.
C17_NoDuplicates ==
  (queryCalled /\ selected(treeBuilder.nodes, queried.origin, queried.selector) # {}) =>
    /\ queried.outcome = "returned"
    /\ \A n \in selected(treeBuilder.nodes, queried.origin, queried.selector) :
         Cardinality({i \in DOMAIN queried.nodes : queried.nodes[i] = n}) = 1


----------------------------------------------------------------------------
(* C18 - C20 *)

\* C18: a Text, Comment or Document node never matches a selector part, a
\* query whose origin is a Text or Comment node returns nothing, every node
\* of a result is an Element of the tree, and a query that reaches a match
\* (and throws at resultsSet.add) has an Element in the subtree of its origin.
C18_ElementsOnly ==
  /\ (matchCalled /\ treeBuilder.nodes[matched.node].type # "element") => ~matched.result
  /\ queryCalled =>
       /\ \A i \in DOMAIN queried.nodes :
            /\ queried.nodes[i] \in DOMAIN treeBuilder.nodes
            /\ treeBuilder.nodes[queried.nodes[i]].type = "element"
       /\ treeBuilder.nodes[queried.origin].type \in {"text", "comment"} =>
            queried.outcome = "returned" /\ queried.nodes = <<>>
       /\ queried.outcome = "TypeError" =>
            \E n \in Range(preorder(treeBuilder.nodes, queried.origin)) :
              treeBuilder.nodes[n].type = "element"

\* _matchNode was called on a Text node with the selector part that has no
\* constraint, which every Element matches
C18_Witness ==
  /\ matchCalled
  /\ treeBuilder.nodes[matched.node].type = "text"
  /\ matched.part = <<>>
  /\ ~matched.result

C20_QueryReadOnly ==
  [][(pc = "done" /\ queried'.outcome # "none") => treeBuilder' = treeBuilder]_vars

\* query("p") was called on the document of testQuery, whose tree is as parsed
C20_Witness ==
  /\ queryCalled
  /\ html = QueryByTag
  /\ queried.selector = <<"p">>
  /\ queried.origin = Document
  /\ Len(treeBuilder.nodes) = 6
  /\ treeBuilder.nodes[2].children = <<3, 5>>
  /\ treeBuilder.nodes[3].parent = 2

----------------------------------------------------------------------------
(* C21 - C22: selector syntax *)

\* the selector has a part that does not fit the tag/id/class grammar
hasMalformedPart(selector) ==
  \E i \in DOMAIN individualSelectors(selector) :
    \E k \in DOMAIN parsedSelectorParts(individualSelectors(selector)[i]) :
      LET part == parsedSelectorParts(individualSelectors(selector)[i])[k]
      IN  part.type = "selector" /\ ~selectorMatch(part.value).matched

\* C21: a simple selector that does not fit the tag/id/class grammar matches
\* no element, and a query whose selector list holds one returns normally
\* with the matches of the other selectors of the list.
C21_MalformedSelector ==
  /\ (matchCalled /\ ~selectorMatch(matched.part).matched) => ~matched.result
  /\ (queryCalled /\ hasMalformedPart(queried.selector)) =>
       /\ queried.outcome = "returned"
       /\ queried.nodes = expected(treeBuilder.nodes, queried.origin, queried.selector)

\* the selector lists of a selector, parsed
parsed(selector) ==
  [i \in DOMAIN individualSelectors(selector) |->
     parsedSelectorParts(individualSelectors(selector)[i])]

\* spellings of one selector that differ in whitespace and empty entries
SelectorSpellings ==
  {{<<"d", "i", "v", ">", "p">>,
    <<"d", "i", "v", " ", ">", " ", "p">>,
    <<" ", " ", "d", "i", "v", " ", " ", " ", ">", " ", " ", " ", "p", " ", " ">>},
   {<<"d", "i", "v", " ", "p">>, <<"d", "i", "v", " ", " ", " ", " ", "p">>},
   {<<"p", ",", ",", "b">>, <<"p", ",", "b">>}}

----------------------------------------------------------------------------
(* C23 - C24: serialization *)

serializeCalled == pc = "done" /\ serialized.method # "none"

\* C23: markup in canonical form is parsed without an exception, and
\* toHTML({pretty: false}) of the result is the input string, attributes in
\* source order.
C23_RoundTrip ==
  (html \in CanonicalInputs) =>
    /\ pc # "thrown"
    /\ (serializeCalled /\ serialized.method = "toHTML" /\ ~serialized.pretty) =>
         serialized.value = html

\* the contents of the Text nodes among ids, concatenated in that order
RECURSIVE textOf(_, _)
textOf(nodes, ids) ==
  IF ids = <<>> THEN <<>>
  ELSE (IF nodes[Head(ids)].type = "text" THEN nodes[Head(ids)].text ELSE <<>>)
         \o textOf(nodes, Tail(ids))

\* C24: toText() of a parsed document is the contents of all its Text nodes
\* concatenated in document order, with nothing from tags and comments and no
\* separator between runs, inside an element or directly under the root.
C24_TextExtraction ==
  (serializeCalled /\ serialized.method = "toText" /\ serialized.separator = <<" ">>) =>
    serialized.value = textOf(treeBuilder.nodes, preorder(treeBuilder.nodes, Document))

----------------------------------------------------------------------------
(* C25 - C27: comments and re-consumption *)

\* h begins with prefix
startsWith(h, prefix) ==
  Len(h) >= Len(prefix) /\ SubSeq(h, 1, Len(prefix)) = prefix

\* C25: in collecting mode, for an input that begins with "<!": when the two
\* characters after it have been consumed, the tokenizer is in Comment state
\* and has raised no error if they are "--", and has raised an error and is
\* not in Comment state if they are not; a first character other than "-"
\* does not lead to Comment state.
C25_CommentOpener ==
  (tokenizer.options = CollectingOptions /\ startsWith(html, <<"<", "!">>)) =>
    /\ tokenizer.index = 4 =>
         IF html[3] = "-" /\ html[4] = "-"
         THEN tokenizer.state = "COMMENT" /\ tokenizer.errors = <<>>
         ELSE tokenizer.state # "COMMENT" /\ tokenizer.errors # <<>>
    /\ (tokenizer.index = 3 /\ html[3] # "-") => tokenizer.state # "COMMENT"

\* the body of the comment <!-- + body + -->
bodyOf(h) == SubSeq(h, 5, Len(h) - 3)

\* C26: for the input <!-- + body + -->, the body without "-->", no exception
\* is raised, no token is emitted before the closing ">" is consumed, the
\* tokens are then the one Comment token with the body as text and the
\* tokenizer is in Data state, and the tree is the root with one Comment node
\* with that text.
C26_CommentToken ==
  (html \in CommentInputs) =>
    /\ pc # "thrown"
    /\ tokenizer.index < Len(html) => tokenizer.tokens = <<>>
    /\ tokenized =>
         /\ tokenizer.tokens = <<Comment(bodyOf(html))>>
         /\ tokenizer.state = "DATA"
    /\ pc = "done" =>
         treeBuilder.nodes = <<[DocumentNode EXCEPT !.children = <<2>>],
                               [CommentNode(bodyOf(html)) EXCEPT !.parent = Document]>>

\* a start tag up to an attribute name, and up to an unquoted attribute value
UpToAttributeName == <<"<", "p", " ", "i">>

UpToUnquotedValue == <<"<", "p", " ", "i", "=", "x">>

\* the tokenizer has just consumed the character after prefix, which ends
\* the attribute with the given value
terminated(prefix, value) ==
  LET char == html[Len(prefix) + 1]
      attributes == <<[name |-> <<"i">>, value |-> value]>>
  IN  IF char = ">"
      THEN /\ tokenizer.tokens = <<StartTag(<<"p">>, attributes)>>
           /\ tokenizer.state = "DATA"
           /\ tokenizer.current_token = NullToken
      ELSE /\ tokenizer.tokens = <<>>
           /\ tokenizer.state = "BEFORE_ATTRIBUTE_NAME"
           /\ tokenizer.current_token = [StartTagToken(<<"p">>) EXCEPT !.attributes = attributes]

\* C27: whitespace or ">" after an attribute name or an unquoted attribute
\* value ends the attribute and is itself handled in BeforeAttributeName
\* within the same step: the attribute is recorded with its value (the empty
\* string after a bare name), whitespace leaves the tokenizer in
\* BeforeAttributeName, ">" emits the StartTag and leaves it in Data state;
\* <p i> gives StartTag p with i -> "" and <p i=x> gives i -> x.
C27_Reconsume ==
  /\ \A prefix \in {UpToAttributeName, UpToUnquotedValue} :
       (/\ startsWith(html, prefix)
        /\ Len(html) > Len(prefix)
        /\ isSpace(html[Len(prefix) + 1]) \/ html[Len(prefix) + 1] = ">") =>
         /\ pc # "thrown"
         /\ tokenizer.index = Len(prefix) + 1 =>
              terminated(prefix, IF prefix = UpToAttributeName THEN <<>> ELSE <<"x">>)
  /\ (tokenized /\ html = UpToAttributeName \o <<">">>) =>
       tokenizer.tokens = <<StartTag(<<"p">>, <<[name |-> <<"i">>, value |-> <<>>]>>)>>
  /\ (tokenized /\ html = UpToUnquotedValue \o <<">">>) =>
       tokenizer.tokens = <<StartTag(<<"p">>, <<[name |-> <<"i">>, value |-> <<"x">>]>>)>>

----------------------------------------------------------------------------
(* C28 - C30: re-consumption and errors *)

\* the character that the next iteration of run consumes
nextChar == html[tokenizer.index + 1]

consuming == pc = "run" /\ tokenizer.index < Len(html)

\* C28: the character that run hands to consume is handed on to consume at
\* most once more; the position is that of the characters handed to consume
\* so far, each counted once (index at most the length of the input, line
\* and column those of the index); when run has returned, the index is the
\* length of the input.
C28_ReconsumeBounded ==
  /\ consuming => refed(impl, tokenizer, nextChar) <= 1
  /\ tokenizer.index <= Len(html)
  /\ tokenizer.line = lineOf(html, tokenizer.index)
  /\ tokenizer.column = columnOf(html, tokenizer.index)
  /\ tokenized => tokenizer.index = Len(html)

\* the bundle has tokenized <p i=x>: the ">" was re-consumed, which emitted
\* the tag, and the index is 7
C28_Witness ==
  /\ pc = "done"
  /\ impl = "bundle"
  /\ html = UpToUnquotedValue \o <<">">>
  /\ tokenizer.tokens = <<StartTag(<<"p">>, <<[name |-> <<"i">>, value |-> <<"x">>]>>)>>
  /\ tokenizer.index = 7
  /\ tokenizer.column = 8

\* consume(char) in the state of t calls error()
raisesError(i, t, char) ==
  consumeOf(i, [t EXCEPT !.options = CollectingOptions], char).errors # t.errors

\* C29: in non-strict mode an iteration of run whose character raises a
\* syntax error leaves the state, the tag token in progress and the emitted
\* tokens as they were, and run goes on with the next character.
C29_ErrorKeepsState ==
  [][(consuming /\ ~tokenizer.options.strict /\ raisesError(impl, tokenizer, nextChar)) =>
       /\ pc' = "run"
       /\ tokenizer'.state = tokenizer.state
       /\ tokenizer'.current_token = tokenizer.current_token
       /\ tokenizer'.tokens = tokenizer.tokens
       /\ tokenizer'.index = tokenizer.index + 1]_vars

\* in collecting mode "<" has just raised an error in TagName state, with
\* the start tag p in progress
C29_Witness ==
  /\ pc = "run"
  /\ tokenizer.options = CollectingOptions
  /\ html = <<"<", "p", "<">>
  /\ tokenizer.index = 3
  /\ Len(tokenizer.errors) = 1
  /\ tokenizer.errors[1].index = 2
  /\ tokenizer.state = "TAG_NAME"
  /\ tokenizer.current_token = StartTagToken(<<"p">>)

\* char cannot start a tag name in the state of t
cannotStartTag(t, char) ==
  \/ t.state = "TAG_OPEN" /\ ~isLetter(char) /\ char \notin {"!", "/"}
  \/ t.state = "END_TAG_OPEN" /\ ~isLetter(char)

\* C30: in TagOpen and EndTagOpen a character that cannot start a tag name
\* raises a syntax error (thrown in strict mode, recorded at its position in
\* collecting mode) and starts no tag token; in non-strict mode the state is
\* kept.
C30_TagStartError ==
  [][(consuming /\ cannotStartTag(tokenizer, nextChar)) =>
       /\ raisesError(impl, tokenizer, nextChar)
       /\ tokenizer'.current_token = tokenizer.current_token
       /\ tokenizer'.tokens = tokenizer.tokens
       /\ IF tokenizer.options.strict
          THEN /\ pc' = "thrown"
               /\ tokenizer'.thrown.kind = "ParseError"
               /\ tokenizer'.thrown.error.index = tokenizer.index
          ELSE /\ pc' = "run"
               /\ tokenizer'.state = tokenizer.state
               /\ tokenizer.options.collectErrors =>
                    /\ Len(tokenizer'.errors) = Len(tokenizer.errors) + 1
                    /\ tokenizer'.errors[Len(tokenizer'.errors)].index = tokenizer.index]_vars

\* in collecting mode ">" has just raised an error in EndTagOpen state, and
\* no tag token exists
C30_Witness ==
  /\ pc = "run"
  /\ tokenizer.options = CollectingOptions
  /\ html = <<"<", "/", ">">>
  /\ tokenizer.index = 3
  /\ tokenizer.state = "END_TAG_OPEN"
  /\ Len(tokenizer.errors) = 1
  /\ tokenizer.errors[1].index = 2
  /\ tokenizer.current_token = NullToken

----------------------------------------------------------------------------
(* The tree builder, token by token *)

\* the token that process_token is about to take
token == tokenizer.tokens[next_token]

\* the step is one call of process_token
processes ==
  /\ pc = "build"
  /\ next_token <= Len(tokenizer.tokens)
  /\ next_token' = next_token + 1

\* the children of node n
childrenOf(tb, n) == tb.nodes[n].children

\* the last child of node n, null if it has none
lastChild(tb, n) ==
  IF childrenOf(tb, n) = <<>> THEN NullNode
  ELSE childrenOf(tb, n)[Len(childrenOf(tb, n))]

\* tb2 is tb with one node more, which is the new last child of parent
appended(tb, tb2, parent) ==
  LET id == Len(tb.nodes) + 1
  IN  /\ Len(tb2.nodes) = id
      /\ tb2.nodes[id].parent = parent
      /\ tb2.nodes[id].children = <<>>
      /\ childrenOf(tb2, parent) = Append(childrenOf(tb, parent), id)
      /\ \A n \in DOMAIN tb.nodes :
           /\ n # parent => tb2.nodes[n] = tb.nodes[n]
           /\ n = parent => tb2.nodes[n] = [tb.nodes[n] EXCEPT !.children = Append(@, id)]

noAdjacentText(tb) ==
  \A n \in DOMAIN tb.nodes :
    \A k \in 1..(Len(childrenOf(tb, n)) - 1) :
      ~ /\ tb.nodes[childrenOf(tb, n)[k]].type = "text"
        /\ tb.nodes[childrenOf(tb, n)[k + 1]].type = "text"

\* C31: after any sequence of tokens no node has two adjacent Text children:
\* a Character token is appended to the text of the last child of the current
\* insertion point when that child is a Text node, and creates a new Text
\* node of that one character, with its parent set, only otherwise.
C31_TextMerged ==
  [][processes =>
       /\ noAdjacentText(treeBuilder')
       /\ token.type = "Character" =>
            LET parent == current_node(treeBuilder)
                last == lastChild(treeBuilder, parent)
            IN  /\ treeBuilder'.stack = treeBuilder.stack
                /\ IF last # NullNode /\ treeBuilder.nodes[last].type = "text"
                   THEN treeBuilder'.nodes =
                          [treeBuilder.nodes EXCEPT ![last].text = @ \o token.data]
                   ELSE /\ appended(treeBuilder, treeBuilder', parent)
                        /\ treeBuilder'.nodes[Len(treeBuilder'.nodes)].type = "text"
                        /\ treeBuilder'.nodes[Len(treeBuilder'.nodes)].text = token.data
                        /\ Len(token.data) = 1]_vars

\* two characters were merged into one Text node and a third one, after an
\* element, made a Text node of its own under the same parent
C31_Witness ==
  /\ pc = "build"
  /\ \E n \in DOMAIN treeBuilder.nodes :
       LET kids == childrenOf(treeBuilder, n)
       IN  /\ Len(kids) = 3
           /\ treeBuilder.nodes[kids[1]].type = "text"
           /\ Len(treeBuilder.nodes[kids[1]].text) = 2
           /\ treeBuilder.nodes[kids[2]].type = "element"
           /\ treeBuilder.nodes[kids[3]].type = "text"

\* the node that the step has added to the heap
newNode == treeBuilder'.nodes[Len(treeBuilder'.nodes)]

\* C32: a StartTag token appends a new Element node, with the tag and the
\* attributes of the token and its parent set, as the last child of the
\* current insertion point and pushes it on the stack, except for the void
\* element br, which is appended but not pushed: a void element never gets
\* children.
C32_StartTag ==
  [][processes =>
       /\ token.type = "StartTag" =>
            /\ appended(treeBuilder, treeBuilder', current_node(treeBuilder))
            /\ newNode.type = "element"
            /\ newNode.tag = token.tag
            /\ newNode.attributes = token.attributes
            /\ treeBuilder'.stack =
                 IF token.tag = BR THEN treeBuilder.stack
                 ELSE Append(treeBuilder.stack, Len(treeBuilder'.nodes))
       /\ \A n \in DOMAIN treeBuilder'.nodes :
            treeBuilder'.nodes[n].tag = BR => childrenOf(treeBuilder', n) = <<>>]_vars

\* a br inside an open div with an attribute, followed by text, which went to
\* the div and not to the br
C32_Witness ==
  /\ pc = "build"
  /\ \E n \in DOMAIN treeBuilder.nodes :
       LET kids == childrenOf(treeBuilder, n)
       IN  /\ treeBuilder.nodes[n].type = "element"
           /\ treeBuilder.nodes[n].attributes # <<>>
           /\ current_node(treeBuilder) = n
           /\ Len(kids) = 2
           /\ treeBuilder.nodes[kids[1]].tag = BR
           /\ treeBuilder.nodes[kids[2]].type = "text"

\* the tag of the current insertion point; the document has none
currentTag(tb) ==
  IF tb.nodes[current_node(tb)].type = "element"
  THEN tb.nodes[current_node(tb)].tag
  ELSE Undefined

\* C33: an EndTag token pops the stack exactly when its name equals the tag
\* of the current insertion point; otherwise, also when the name matches a
\* deeper stack entry or the root is the insertion point, the stack and the
\* tree are unchanged and no error is raised or recorded.
C33_EndTag ==
  [][processes /\ token.type = "EndTag" =>
       /\ treeBuilder'.nodes = treeBuilder.nodes
       /\ IF current_node(treeBuilder) # Document /\ currentTag(treeBuilder) = token.tag
          THEN treeBuilder'.stack =
                 SubSeq(treeBuilder.stack, 1, Len(treeBuilder.stack) - 1)
          ELSE treeBuilder'.stack = treeBuilder.stack
       /\ tokenizer'.errors = tokenizer.errors
       /\ pc' = "build"]_vars

\* the token before
lastToken == tokenizer.tokens[next_token - 1]

\* an end tag that names the element below the current insertion point has
\* been processed and both elements are still open
C33_Witness ==
  /\ pc = "build"
  /\ next_token > 1
  /\ lastToken.type = "EndTag"
  /\ Len(treeBuilder.stack) = 3
  /\ treeBuilder.nodes[treeBuilder.stack[2]].tag = lastToken.tag
  /\ currentTag(treeBuilder) # lastToken.tag

\* the places where node n occurs in a list of children
occurrences(tb, n) ==
  {<<m, k>> \in (DOMAIN tb.nodes) \X (1..Len(tb.nodes)) :
     k <= Len(childrenOf(tb, m)) /\ childrenOf(tb, m)[k] = n}

\* C34: the tree is a single rooted tree: the root has no parent; every other
\* node has exactly one parent, occurs exactly once in the children of that
\* parent and nowhere else, and is reachable from the root; the parent of
\* every child of a node is that node.
C34_SingleRootedTree ==
  pc = "build" =>
    /\ treeBuilder.nodes[Document].type = "document"
    /\ treeBuilder.nodes[Document].parent = NullNode
    /\ \A n \in DOMAIN treeBuilder.nodes \ {Document} :
         /\ treeBuilder.nodes[n].type # "document"
         /\ treeBuilder.nodes[n].parent \in DOMAIN treeBuilder.nodes
         /\ Cardinality(occurrences(treeBuilder, n)) = 1
         /\ \A o \in occurrences(treeBuilder, n) : o[1] = treeBuilder.nodes[n].parent
         /\ isProperAncestor(treeBuilder.nodes, Document, n)
    /\ occurrences(treeBuilder, Document) = {}
    /\ \A m \in DOMAIN treeBuilder.nodes :
         \A k \in DOMAIN childrenOf(treeBuilder, m) :
           /\ childrenOf(treeBuilder, m)[k] \in DOMAIN treeBuilder.nodes
           /\ treeBuilder.nodes[childrenOf(treeBuilder, m)[k]].parent = m

\* four tokens have built a tree of five nodes that is three levels deep
C34_Witness ==
  /\ pc = "build"
  /\ Len(treeBuilder.nodes) = 5
  /\ \E n \in DOMAIN treeBuilder.nodes :
       /\ treeBuilder.nodes[n].type = "text"
       /\ treeBuilder.nodes[n].parent # Document
       /\ treeBuilder.nodes[treeBuilder.nodes[n].parent].parent # Document

isPrefix(s, t) == Len(s) <= Len(t) /\ SubSeq(t, 1, Len(s)) = s

\* C35: during parsing nodes are only ever appended: every step keeps every
\* node, with the parent it had, and the children of every node before the
\* step are a prefix of its children after it.
C35_AppendOnly ==
  [][processes =>
       /\ Len(treeBuilder'.nodes) >= Len(treeBuilder.nodes)
       /\ \A n \in DOMAIN treeBuilder.nodes :
            /\ treeBuilder'.nodes[n].type = treeBuilder.nodes[n].type
            /\ treeBuilder'.nodes[n].parent = treeBuilder.nodes[n].parent
            /\ isPrefix(childrenOf(treeBuilder, n), childrenOf(treeBuilder', n))]_vars

\* a Comment token has been processed at a node that had a child already
C35_Witness ==
  /\ pc = "build"
  /\ next_token > 1
  /\ lastToken.type = "Comment"
  /\ Len(childrenOf(treeBuilder, current_node(treeBuilder))) >= 2
  /\ treeBuilder.nodes[lastChild(treeBuilder, current_node(treeBuilder))].type = "comment"

\* C36: the stack of open elements is never empty and its bottom entry is
\* always the Document root: no end tag pops the root.
C36_RootStaysOpen ==
  pc = "build" =>
    /\ Len(treeBuilder.stack) >= 1
    /\ treeBuilder.stack[1] = Document
    /\ treeBuilder.nodes[Document].type = "document"

\* an end tag has been processed with the root as the insertion point, before
\* any element was opened
C36_Witness ==
  /\ pc = "build"
  /\ next_token > 1
  /\ lastToken.type = "EndTag"
  /\ Len(treeBuilder.nodes) = 1
  /\ treeBuilder.stack = <<Document>>

\* C37: at every point of tree building the stack is the path from the root
\* to the current insertion point: each entry above the bottom is a non-void
\* Element whose parent is the entry directly below it and which is the last
\* child of that entry, and no node is on the stack twice.
C37_StackIsPath ==
  pc = "build" =>
    /\ \A k \in 2..Len(treeBuilder.stack) :
         /\ treeBuilder.stack[k] \in DOMAIN treeBuilder.nodes
         /\ treeBuilder.nodes[treeBuilder.stack[k]].type = "element"
         /\ treeBuilder.nodes[treeBuilder.stack[k]].tag # BR
         /\ treeBuilder.nodes[treeBuilder.stack[k]].parent = treeBuilder.stack[k - 1]
         /\ lastChild(treeBuilder, treeBuilder.stack[k - 1]) = treeBuilder.stack[k]
    /\ \A j, k \in DOMAIN treeBuilder.stack :
         j # k => treeBuilder.stack[j] # treeBuilder.stack[k]

\* two elements are open, the inner one after an earlier sibling, and the
\* inner one has got a child
C37_Witness ==
  /\ pc = "build"
  /\ Len(treeBuilder.stack) = 3
  /\ Len(childrenOf(treeBuilder, treeBuilder.stack[2])) = 2
  /\ childrenOf(treeBuilder, current_node(treeBuilder)) # <<>>

----------------------------------------------------------------------------
(* The tokenizer at the end of a construct and of the input *)

\* the length of the continuations tried to bring the tokenizer back to Data
MaxRecovery == 5

\* the characters that end a construct, with a letter and a space
RecoveryChars == {">", "\"", "'", "=", "-", "a", " "}

\* some continuation of at most k characters brings t back to Data state
RECURSIVE canReturnToData(_, _, _)
canReturnToData(i, t, k) ==
  \/ t.state = "DATA"
  \/ /\ k > 0
     /\ \E char \in RecoveryChars :
          /\ consumeOf(i, t, char).thrown = NotThrown
          /\ canReturnToData(i, consumeOf(i, t, char), k - 1)

\* C38: in non-strict mode the tokenizer has no trap state: from every
\* configuration that a run reaches, some continuation of the input brings
\* it back to Data state.
C38_NoTrapState ==
  (pc = "run" /\ ~tokenizer.options.strict) =>
    canReturnToData(impl, tokenizer, MaxRecovery)

\* C39: when the input ends inside an unterminated tag or comment, no token
\* is emitted for the partial construct and no syntax error is raised or
\* recorded, in any mode: the run returns, and the tokens it returns are
\* those completed before the construct began.
C39_EndOfInputInConstruct ==
  \A before \in CompletedBefore, partial \in PartialConstructs :
    html = before \o partial =>
      /\ pc # "thrown"
      /\ tokenized =>
           /\ tokenizer.tokens = run(impl, tokenizer.options, before).tokens
           /\ tokenizer.errors = <<>>

\* C40: query returns an array for every selector string and every tree: no
\* exception escapes a selector query.
C40_QueryTotal ==
  queryCalled => queried.outcome = "returned"

====
